---- MODULE Spec2Model ----
(***************************************************************************)
(* A model of the worker-side runner framework                             *)
(* (alts/worker/runners/base.py) and of the Pulp uploader                  *)
(* (alts/shared/uploaders/pulp.py).                                        *)
(*                                                                         *)
(* Every public operation is one action that models the whole call.  The   *)
(* body of a call is written as a function from a call state s (the        *)
(* object's fields, the disk, and what the call has done so far: the       *)
(* exception raised, the value returned, the trace of external effects)    *)
(* to the call state after it, so that composite operations (setup,        *)
(* teardown, __del__) are the composition of their steps, exactly as in    *)
(* the source.                                                             *)
(***************************************************************************)
EXTENDS Integers, Sequences, FiniteSets, TLC

\* ------------------------------------------------------------------ bounds
\* How many distinct names tempfile.mkdtemp can hand out.
MaxDirs == 2
\* How many files of one publication the storage client may fail on.
MaxFailedUploads == 1
\* The largest file, in bytes, and the largest chunk-size threshold.
MaxFileSize == 3
MaxChunkSize == 2
\* How many reads of a task the repository answers before a terminal state.
MaxReads == 2
\* Chunk manifests: how many rows, the row sizes 1..MaxRowSize, and one
\* size of two digits.
MaxRows == 3
MaxRowSize == 2
BigRowSize == 12
\* The reads of one task poll are counted up to this number.
MaxPollCount == 12

VARIABLES
    _work_dir,        \* BaseRunner._work_dir: a path, or NoPath for None
    _artifacts_dir,   \* BaseRunner._artifacts_dir: a path, or NoPath for None
    _artifacts,       \* BaseRunner._artifacts: dict key -> {exit_code, stdout, stderr}
    _dist_name,       \* BaseRunner._dist_name (text: a sequence of characters)
    _dist_version,    \* BaseRunner._dist_version (text)
    disk,             \* the paths that exist on disk
    ctor,             \* the arguments the runner was constructed with
    alive,            \* FALSE once the instance was discarded (__del__ ran)
    last,             \* the last call: operation, arguments, exception, value, effects
    repo,             \* the repository's artifacts: digest -> references, as listed
    _chunk_size,      \* PulpBaseUploader._chunk_size
    fs_manifest,      \* the rows the splitter writes for the file under transfer
    task_reports,     \* the states the repository reports on the reads of the task polled
    polling,          \* a call of _wait_for_task_completion in progress, and its task
    ulast,            \* the uploader's last call: arguments, exception, value, requests
    batch             \* the batch upload in progress: its futures and its two lists

runner_vars == <<_work_dir, _artifacts_dir, _artifacts, _dist_name, _dist_version,
                 disk, ctor, alive, last>>

uploader_vars == <<repo, _chunk_size, fs_manifest, task_reports, polling, polling, ulast, batch>>

vars == <<runner_vars, uploader_vars>>

\* ------------------------------------------------------------------ values
\* A path is a sequence of components; None is the empty path.
NoPath == <<>>

TEMPFILE_PREFIX == "base_test_runner_"

\* The names mkdtemp may choose: the prefix and a random suffix.
TempSuffixes == <<"a", "b", "c", "d">>

TempDirs == {<<TEMPFILE_PREFIX \o TempSuffixes[i]>> : i \in 1..MaxDirs}

IsPrefix(p, q) == Len(p) <= Len(q) /\ SubSeq(q, 1, Len(p)) = p

\* What a call returned.
RetNone == [kind |-> "None", exit_code |-> 0, stdout |-> "", stderr |-> "", path |-> NoPath]

RetPath(p) == [RetNone EXCEPT !.kind = "path", !.path = p]

RetStr(x) == [RetNone EXCEPT !.kind = "str", !.stdout = x]

\* plumbum's run(retcode=None): the (exit_code, stdout, stderr) tuple.
RetTuple(r) == [kind |-> "tuple", exit_code |-> r.exit_code, stdout |-> r.stdout,
                stderr |-> r.stderr, path |-> NoPath]

\* The outcomes of an external command.
CmdResults == {[exit_code |-> 0, stdout |-> "out", stderr |-> ""],
               [exit_code |-> 1, stdout |-> "out", stderr |-> "err"]}

\* One external effect of a call: what was done, on what, how it ended, and
\* where (the cwd of a command, the local file of an upload).
Ev(kind, arg, code, at) ==
    [ev |-> kind, arg |-> arg, code |-> code, at |-> at, stdout |-> "", stderr |-> ""]

\* local[tool].run(args, retcode=None, cwd=self._work_dir) with outcome r.
Run(s, args, r) ==
    [s EXCEPT !.trace = Append(@, [Ev("run", args, r.exit_code, s._work_dir)
                                      EXCEPT !.stdout = r.stdout, !.stderr = r.stderr]),
              !.ret = RetTuple(r)]

\* The call state at the start of a call on the current object.
Cur == [_work_dir |-> _work_dir, _artifacts_dir |-> _artifacts_dir,
        _artifacts |-> _artifacts, disk |-> disk,
        raised |-> "", ret |-> RetNone, trace |-> <<>>]

\* ------------------------------------------------------------- directories
\* _create_work_dir without the check of the recorded directory.
_create_work_dir_always(s, d) ==
    [s EXCEPT !._work_dir = d,
              !.disk = @ \cup {d},
              !.trace = Append(@, Ev("mkdtemp", d, 0, NoPath)),
              !.ret = RetPath(d)]

_create_work_dir(s, d) ==
    IF s._work_dir = NoPath \/ s._work_dir \notin s.disk
    THEN [s EXCEPT !._work_dir = d,
                   !.disk = @ \cup {d},
                   !.trace = Append(@, Ev("mkdtemp", d, 0, NoPath)),
                   !.ret = RetPath(d)]
    ELSE [s EXCEPT !.ret = RetPath(s._work_dir)]

_create_artifacts_dir(s, d) ==
    LET s1 == IF s._work_dir = NoPath
              THEN LET c == _create_work_dir(s, d)
                   IN [c EXCEPT !._work_dir = c.ret.path]
              ELSE s
        path == Append(s1._work_dir, "artifacts")
    IN  IF path \in s1.disk
        THEN [s1 EXCEPT !.ret = RetPath(path)]
        ELSE IF s1._work_dir \notin s1.disk
        THEN \* os.mkdir in a directory that does not exist
             [s1 EXCEPT !.raised = "FileNotFoundError", !.ret = RetNone]
        ELSE [s1 EXCEPT !.disk = @ \cup {path},
                        !.trace = Append(@, Ev("mkdir", path, 0, NoPath)),
                        !.ret = RetPath(path)]

\* ------------------------------------------------------------------- text
\* Text is a sequence of one-character strings, so that lower(), str() and `in`
\* are computed as Python computes them.
UpperCase == <<"A", "B", "C", "D", "E", "F", "G", "H", "I", "J", "K", "L", "M",
               "N", "O", "P", "Q", "R", "S", "T", "U", "V", "W", "X", "Y", "Z">>

LowerCase == <<"a", "b", "c", "d", "e", "f", "g", "h", "i", "j", "k", "l", "m",
               "n", "o", "p", "q", "r", "s", "t", "u", "v", "w", "x", "y", "z">>

Digits == <<"0", "1", "2", "3", "4", "5", "6", "7", "8", "9">>

\* str.lower()
lower(text) ==
    [i \in 1..Len(text) |->
        IF \E k \in 1..Len(UpperCase) : UpperCase[k] = text[i]
        THEN LowerCase[CHOOSE k \in 1..Len(UpperCase) : UpperCase[k] = text[i]]
        ELSE text[i]]

RECURSIVE IntToText(_)
\* str(n) of an int n >= 0
IntToText(n) ==
    IF n < 10 THEN <<Digits[n + 1]>>
    ELSE Append(IntToText(n \div 10), Digits[(n % 10) + 1])

\* A dist_version argument is a number or a text: str(dist_version)
str(v) == IF v.is_int THEN IntToText(v.n) ELSE v.text

\* c in text, for a one-character c
Contains(c, text) == \E i \in 1..Len(text) : text[i] = c

Num(n) == [is_int |-> TRUE, n |-> n, text |-> <<>>]

Txt(t) == [is_int |-> FALSE, n |-> 0, text |-> t]

DEBIAN_FLAVORS == {<<"d", "e", "b", "i", "a", "n">>, <<"u", "b", "u", "n", "t", "u">>,
                   <<"r", "a", "s", "p", "b", "i", "a", "n">>}

RHEL_FLAVORS == {<<"f", "e", "d", "o", "r", "a">>, <<"c", "e", "n", "t", "o", "s">>,
                 <<"a", "l", "m", "a", "l", "i", "n", "u", "x">>,
                 <<"c", "l", "o", "u", "d", "l", "i", "n", "u", "x">>}

\* pkg_manager with the condition read as (fedora or RHEL) and '8' in version.
pkg_manager_prec ==
    IF (_dist_name = <<"f", "e", "d", "o", "r", "a">> \/ _dist_name \in RHEL_FLAVORS)
       /\ Contains("8", _dist_version)
    THEN [raised |-> "", value |-> "dnf"]
    ELSE IF _dist_name \in RHEL_FLAVORS
    THEN [raised |-> "", value |-> "yum"]
    ELSE IF _dist_name \in DEBIAN_FLAVORS
    THEN [raised |-> "", value |-> "apt-get"]
    ELSE [raised |-> "ValueError", value |-> ""]

\* The pkg_manager property: the value returned, or the exception raised.
pkg_manager ==
    IF _dist_name = <<"f", "e", "d", "o", "r", "a">>
       \/ (_dist_name \in RHEL_FLAVORS /\ Contains("8", _dist_version))
    THEN [raised |-> "", value |-> "dnf"]
    ELSE IF _dist_name \in RHEL_FLAVORS
    THEN [raised |-> "", value |-> "yum"]
    ELSE IF _dist_name \in DEBIAN_FLAVORS
    THEN [raised |-> "", value |-> "apt-get"]
    ELSE [raised |-> "ValueError", value |-> ""]

\* ------------------------------------------------------ lifecycle steps
TF_VARIABLES_FILE == ""

ANSIBLE_INVENTORY_FILE == "hosts"

ANSIBLE_PLAYBOOK == "playbook.yml"

ANSIBLE_CONFIG == "ansible.cfg"

TF_VERSIONS_FILE == "versions.tf"

ansible_connection_type == "ssh"

\* command_decorator whose gate looks at the recorded path only, not at the disk.
command_decorator_stale(s, exception_class, artifacts_key, t) ==
    IF s._work_dir = NoPath
    THEN [s EXCEPT !.ret = RetNone]
    ELSE IF t.raised # ""
    THEN t
    ELSE IF t.ret.kind # "tuple"
    THEN [t EXCEPT !.raised = "TypeError", !.ret = RetNone]
    ELSE LET u == [t EXCEPT !._artifacts =
                        (artifacts_key :> [exit_code |-> t.ret.exit_code,
                                           stderr |-> t.ret.stderr,
                                           stdout |-> t.ret.stdout]) @@ @]
         IN  IF t.ret.exit_code # 0
             THEN [u EXCEPT !.raised = exception_class, !.ret = RetNone]
             ELSE u

\* command_decorator that raises before it stores the record.
command_decorator_raise_first(s, exception_class, artifacts_key, t) ==
    IF s._work_dir = NoPath \/ s._work_dir \notin s.disk
    THEN [s EXCEPT !.ret = RetNone]
    ELSE IF t.raised # ""
    THEN t
    ELSE IF t.ret.kind # "tuple"
    THEN [t EXCEPT !.raised = "TypeError", !.ret = RetNone]
    ELSE IF t.ret.exit_code # 0
    THEN [t EXCEPT !.raised = exception_class, !.ret = RetNone]
    ELSE [t EXCEPT !._artifacts =
                        (artifacts_key :> [exit_code |-> t.ret.exit_code,
                                           stderr |-> t.ret.stderr,
                                           stdout |-> t.ret.stdout]) @@ @]

\* The wrapper of command_decorator(exception_class, artifacts_key, ...) around
\* a step; t is the call state the wrapped function fn reaches from s.
command_decorator(s, exception_class, artifacts_key, t) ==
    IF s._work_dir = NoPath \/ s._work_dir \notin s.disk
    THEN [s EXCEPT !.ret = RetNone]
    ELSE IF t.raised # ""
    THEN t
    ELSE IF t.ret.kind # "tuple"
    THEN \* exit_code, stdout, stderr = None
         [t EXCEPT !.raised = "TypeError", !.ret = RetNone]
    ELSE LET u == [t EXCEPT !._artifacts =
                        (artifacts_key :> [exit_code |-> t.ret.exit_code,
                                           stderr |-> t.ret.stderr,
                                           stdout |-> t.ret.stdout]) @@ @]
         IN  IF t.ret.exit_code # 0
             THEN [u EXCEPT !.raised = exception_class, !.ret = RetNone]
             ELSE u

initialize_terraform(s, r) ==
    command_decorator(s, "TerraformInitializationError", "initialize_terraform",
                      Run(s, <<"terraform", "init">>, r))

VarFileArgs == IF TF_VARIABLES_FILE # "" THEN <<"--var-file", TF_VARIABLES_FILE>> ELSE <<>>

start_env(s, r) ==
    command_decorator(s, "StartEnvironmentError", "start_environment",
                      Run(s, <<"terraform", "apply", "--auto-approve">> \o VarFileArgs, r))

initial_provision(s, verbose, r) ==
    command_decorator(s, "ProvisionError", "initial_provision",
                      Run(s, <<"ansible-playbook", "-c", ansible_connection_type, "-i",
                               ANSIBLE_INVENTORY_FILE, ANSIBLE_PLAYBOOK,
                               "-e", "repositories=[]", "-t", "initial_provision">>
                             \o (IF verbose THEN <<"-vvvv">> ELSE <<>>), r))

\* install_package with the name-version form for every RHEL-family manager.
install_package_fn_rpm(s, package_name, package_version, r) ==
    IF package_version # "" /\ pkg_manager.raised # ""
    THEN [s EXCEPT !.raised = pkg_manager.raised]
    ELSE LET full_pkg_name ==
                 IF package_version # ""
                 THEN IF pkg_manager.value \in {"yum", "dnf"}
                      THEN package_name \o "-" \o package_version
                      ELSE package_name \o "=" \o package_version
                 ELSE package_name
         IN  Run(s, <<"ansible-playbook", "-c", ansible_connection_type, "-i",
                      ANSIBLE_INVENTORY_FILE, ANSIBLE_PLAYBOOK,
                      "-e", "pkg_name=" \o full_pkg_name, "-t", "install_package">>, r)

\* The body of install_package; package_version "" stands for None.
install_package_fn(s, package_name, package_version, r) ==
    IF package_version # "" /\ pkg_manager.raised # ""
    THEN [s EXCEPT !.raised = pkg_manager.raised]
    ELSE LET full_pkg_name ==
                 IF package_version # ""
                 THEN IF pkg_manager.value = "yum"
                      THEN package_name \o "-" \o package_version
                      ELSE package_name \o "=" \o package_version
                 ELSE package_name
         IN  Run(s, <<"ansible-playbook", "-c", ansible_connection_type, "-i",
                      ANSIBLE_INVENTORY_FILE, ANSIBLE_PLAYBOOK,
                      "-e", "pkg_name=" \o full_pkg_name, "-t", "install_package">>, r)

install_package(s, package_name, package_version, r) ==
    command_decorator(s, "InstallPackageError", "install_package",
                      install_package_fn(s, package_name, package_version, r))

\* The body of stop_env: it returns None when the directory is not on disk.
stop_env_fn(s, r) ==
    IF s._work_dir \in s.disk
    THEN Run(s, <<"terraform", "destroy", "--auto-approve">> \o VarFileArgs, r)
    ELSE [s EXCEPT !.ret = RetNone]

stop_env(s, r) ==
    command_decorator(s, "StopEnvironmentError", "stop_environment", stop_env_fn(s, r))

\* prepare_work_dir_files; copy_ok says whether copying and rendering the files
\* into the working directory went through.  The files copied are recorded in
\* the trace only: nothing in the program reads them back.
prepare_work_dir_files(s, d, create_ansible_inventory, copy_ok) ==
    LET s1 == IF s._work_dir = NoPath \/ s._work_dir \notin s.disk
              THEN LET c == _create_work_dir(s, d)
                       c1 == [c EXCEPT !._work_dir = c.ret.path]
                       a == _create_artifacts_dir(c1, d)
                   IN  IF a.raised # "" THEN a
                       ELSE [a EXCEPT !._artifacts_dir = a.ret.path]
              ELSE s
    IN  IF s1.raised # "" THEN s1
        ELSE IF copy_ok
        THEN [s1 EXCEPT !.trace = Append(@, Ev("prepare",
                                              IF create_ansible_inventory
                                              THEN <<ANSIBLE_CONFIG, ANSIBLE_PLAYBOOK,
                                                     TF_VERSIONS_FILE, ANSIBLE_INVENTORY_FILE>>
                                              ELSE <<ANSIBLE_CONFIG, ANSIBLE_PLAYBOOK,
                                                     TF_VERSIONS_FILE>>,
                                              0, s1._work_dir)),
                        !.ret = RetNone]
        ELSE [s1 EXCEPT !.trace = Append(@, Ev("prepare", <<>>, 1, s1._work_dir)),
                        !.raised = "WorkDirPreparationError", !.ret = RetNone]

\* erase_work_dir; rm_ok says whether shutil.rmtree went through.
erase_work_dir(s, rm_ok) ==
    IF s._work_dir # NoPath /\ s._work_dir \in s.disk
    THEN IF rm_ok
         THEN [s EXCEPT !.disk = {p \in @ : ~IsPrefix(s._work_dir, p)},
                        !.trace = Append(@, Ev("rmtree", s._work_dir, 0, NoPath)),
                        !.ret = RetNone]
         ELSE [s EXCEPT !.trace = Append(@, Ev("rmtree", s._work_dir, 1, NoPath)),
                        !.ret = RetNone]
    ELSE [s EXCEPT !.ret = RetNone]

\* -------------------------------------------------------- GenericVMRunner
\* _wait_for_ssh(self, retries=60)
retries == 60

RetBool(b) == [RetNone EXCEPT !.kind = IF b THEN "True" ELSE "False"]

PingArgs == <<"ansible", "-i", ANSIBLE_INVENTORY_FILE, "-m", "ping", "all">>

\* The outcome of the k-th reachability check when the machine answers from
\* the first_ok-th check on.
Ping(k, first_ok) ==
    IF k >= first_ok THEN [exit_code |-> 0, stdout |-> "pong", stderr |-> ""]
    ELSE [exit_code |-> 4, stdout |-> "", stderr |-> "unreachable"]

PingEv(cwd, k, first_ok) ==
    [Ev("run", PingArgs, Ping(k, first_ok).exit_code, cwd)
        EXCEPT !.stdout = Ping(k, first_ok).stdout, !.stderr = Ping(k, first_ok).stderr]

RECURSIVE wait_for_ssh_once_more(_, _, _, _)
\* A loop that checks once more when the retries are used up.
wait_for_ssh_once_more(cwd, left, k, first_ok) ==
    IF left >= 0
    THEN IF Ping(k, first_ok).exit_code = 0
         THEN <<PingEv(cwd, k, first_ok)>>
         ELSE <<PingEv(cwd, k, first_ok), Ev("sleep", <<"10">>, 0, NoPath)>>
              \o wait_for_ssh_once_more(cwd, left - 1, k + 1, first_ok)
    ELSE <<>>

RECURSIVE wait_for_ssh_loop(_, _, _, _)
\* The loop of _wait_for_ssh with left retries left, at its k-th check: the
\* checks run in cwd and the pauses, in order.
wait_for_ssh_loop(cwd, left, k, first_ok) ==
    IF left > 0
    THEN IF Ping(k, first_ok).exit_code = 0
         THEN <<PingEv(cwd, k, first_ok)>>
         ELSE <<PingEv(cwd, k, first_ok), Ev("sleep", <<"10">>, 0, NoPath)>>
              \o wait_for_ssh_loop(cwd, left - 1, k + 1, first_ok)
    ELSE <<>>

\* _wait_for_ssh: True when the loop ended on a check that exited 0.
_wait_for_ssh(s, first_ok) ==
    LET done == wait_for_ssh_loop(s._work_dir, retries, 1, first_ok)
    IN  [s EXCEPT !.trace = @ \o done,
                  !.ret = RetBool(done # <<>> /\ done[Len(done)].ev = "run")]

\* _create_ansible_inventory_file(vm_ip): the inventory is rendered into the
\* working directory; render_ok says whether the template rendered.
_create_ansible_inventory_file(s, vm_ip, render_ok) ==
    IF s._work_dir = NoPath
    THEN [s EXCEPT !.raised = "TypeError", !.ret = RetNone]
    ELSE IF s._work_dir \notin s.disk
    THEN [s EXCEPT !.raised = "FileNotFoundError", !.ret = RetNone]
    ELSE IF ~render_ok
    THEN [s EXCEPT !.trace = Append(@, Ev("render", <<ANSIBLE_INVENTORY_FILE, vm_ip>>, 1,
                                          s._work_dir)),
                   !.raised = "TemplateError", !.ret = RetNone]
    ELSE [s EXCEPT !.trace = Append(@, Ev("render", <<ANSIBLE_INVENTORY_FILE, vm_ip>>, 0,
                                          s._work_dir)),
                   !.ret = RetNone]

\* GenericVMRunner.start_env.  The override is not wrapped: after the wrapped
\* base step (a no-op without a working directory) it goes on.  With no
\* directory recorded the command is run with cwd=None, the directory of the
\* process; with a recorded directory that is not on disk the command cannot
\* be started.
GenericVMRunner_start_env(s, r_apply, r_output, render_ok, first_ok) ==
    LET a == start_env(s, r_apply)
        o == IF a._work_dir # NoPath /\ a._work_dir \notin a.disk
             THEN [a EXCEPT !.raised = "FileNotFoundError", !.ret = RetNone]
             ELSE Run(a, <<"terraform", "output", "-raw", "vm_ip">>, r_output)
        i == _create_ansible_inventory_file(o, r_output.stdout, render_ok)
        w == _wait_for_ssh(i, first_ok)
    IN  IF a.raised # "" THEN a
        ELSE IF o.raised # "" THEN o
        ELSE IF r_output.exit_code # 0
        THEN [o EXCEPT !.raised = "StartEnvironmentError", !.ret = RetNone]
        ELSE IF i.raised # "" THEN i
        ELSE IF w.ret = RetBool(FALSE)
        THEN [w EXCEPT !.raised = "StartEnvironmentError", !.ret = RetNone]
        ELSE [w EXCEPT !.ret = RetNone]

\* ------------------------------------------------------------ publication
\* The constructor's task_id and CONFIG.artifacts_root_directory.
_task_id == "test_id_1"

artifacts_root_directory == "artifacts_root"

ArtifactKeys == <<"initialize_terraform", "start_environment", "initial_provision",
                  "install_package", "stop_environment">>

\* The log files publication may write, in the order the model lists a directory.
FileOrder ==
    [i \in 1..(2 * Len(ArtifactKeys)) |->
        IF i % 2 = 1 THEN ArtifactKeys[(i + 1) \div 2] \o ".log"
        ELSE ArtifactKeys[i \div 2] \o "_error.log"]

\* The files publication writes for the artifact map of s.
LogFiles(s) ==
    {k \o ".log" : k \in DOMAIN s._artifacts}
    \cup {k \o "_error.log" : k \in {x \in DOMAIN s._artifacts : s._artifacts[x].stderr # ""}}

\* os.listdir(path)
ListDir(s, path) == SelectSeq(FileOrder, LAMBDA f : Append(path, f) \in s.disk)

\* The errors client.upload_file raises: the first two are caught by the loop.
UploadErrors == {"S3UploadFailedError", "ValueError", "EndpointConnectionError"}

RECURSIVE write_logs(_, _)
\* The first loop of publish_artifacts_to_storage over the files still to write.
write_logs(s, files) ==
    IF files = <<>> THEN s
    ELSE IF s._artifacts_dir = NoPath
    THEN \* os.path.join(None, ...)
         [s EXCEPT !.raised = "TypeError"]
    ELSE IF s._artifacts_dir \notin s.disk
    THEN \* open() in a directory that does not exist
         [s EXCEPT !.raised = "FileNotFoundError"]
    ELSE write_logs([s EXCEPT !.disk = @ \cup {Append(s._artifacts_dir, Head(files))},
                              !.trace = Append(@, Ev("write", Append(s._artifacts_dir, Head(files)),
                                                     0, NoPath))],
                    Tail(files))

RECURSIVE upload_files(_, _, _, _)
\* The second loop: fails maps the files whose upload raises to what is raised.
upload_files(s, files, fails, error_when_uploading) ==
    IF files = <<>>
    THEN IF error_when_uploading
         THEN [s EXCEPT !.raised = "PublishArtifactsError"]
         ELSE s
    ELSE LET artifact == Head(files)
             artifact_path == Append(s._artifacts_dir, artifact)
             object_name == <<artifacts_root_directory, _task_id, artifact>>
         IN  IF artifact \notin DOMAIN fails
             THEN upload_files([s EXCEPT !.trace = Append(@, Ev("upload", object_name, 0,
                                                                artifact_path))],
                               Tail(files), fails, error_when_uploading)
             ELSE IF fails[artifact] \in {"S3UploadFailedError", "ValueError"}
             THEN upload_files([s EXCEPT !.trace = Append(@, Ev("upload", object_name, 1,
                                                                artifact_path))],
                               Tail(files), fails, TRUE)
             ELSE [s EXCEPT !.trace = Append(@, Ev("upload", object_name, 2, artifact_path)),
                            !.raised = fails[artifact]]

\* publish_artifacts_to_storage; cwd_files says whether the process's current
\* directory, which os.listdir(None) lists, holds any file.
publish_artifacts_to_storage(s, fails, cwd_files) ==
    LET w == write_logs([s EXCEPT !.ret = RetNone],
                        SelectSeq(FileOrder, LAMBDA f : f \in LogFiles(s)))
    IN  IF w.raised # "" THEN w
        ELSE IF w._artifacts_dir = NoPath
        THEN IF cwd_files
             THEN \* os.path.join(None, artifact)
                  [w EXCEPT !.raised = "TypeError"]
             ELSE w
        ELSE IF w._artifacts_dir \notin w.disk
        THEN \* os.listdir of a directory that does not exist
             [w EXCEPT !.raised = "FileNotFoundError"]
        ELSE upload_files(w, ListDir(w, w._artifacts_dir), fails, FALSE)

\* -------------------------------------------------------------- composites
\* setup that starts the environment before it initializes terraform.
setup_swapped(s, d, copy_ok, r1, r2, r3) ==
    LET a == prepare_work_dir_files(s, d, FALSE, copy_ok)
        b == start_env(a, r2)
        c == initialize_terraform(b, r1)
        e == initial_provision(c, FALSE, r3)
    IN  IF a.raised # "" THEN a
        ELSE IF b.raised # "" THEN b
        ELSE IF c.raised # "" THEN c
        ELSE IF e.raised # "" THEN e
        ELSE [e EXCEPT !.ret = RetNone]

setup(s, d, copy_ok, r1, r2, r3) ==
    LET a == prepare_work_dir_files(s, d, FALSE, copy_ok)
        b == initialize_terraform(a, r1)
        c == start_env(b, r2)
        e == initial_provision(c, FALSE, r3)
    IN  IF a.raised # "" THEN a
        ELSE IF b.raised # "" THEN b
        ELSE IF c.raised # "" THEN c
        ELSE IF e.raised # "" THEN e
        ELSE [e EXCEPT !.ret = RetNone]

\* teardown that publishes before it stops the environment.
teardown_publish_first(s, publish_artifacts, r, fails, cwd_files, rm_ok) ==
    LET a == IF publish_artifacts THEN publish_artifacts_to_storage(s, fails, cwd_files)
             ELSE s
        b == stop_env(a, r)
        c == erase_work_dir(b, rm_ok)
    IN  IF a.raised # "" THEN a
        ELSE IF b.raised # "" THEN b
        ELSE c

teardown(s, publish_artifacts, r, fails, cwd_files, rm_ok) ==
    LET a == stop_env(s, r)
        b == IF publish_artifacts THEN publish_artifacts_to_storage(a, fails, cwd_files)
             ELSE a
        c == erase_work_dir(b, rm_ok)
    IN  IF a.raised # "" THEN a
        ELSE IF b.raised # "" THEN b
        ELSE c

__del__(s, r, rm_ok) ==
    LET a == stop_env(s, r)
    IN  IF a.raised # "" THEN a
        ELSE erase_work_dir(a, rm_ok)

\* ------------------------------------------------------------------ uploader
\* A file has a path and a content; a content is known by its size and a tag
\* that tells contents of one size apart.
Contents == [size : {0, 1, MaxFileSize}, variant : {"x"}] \cup {[size |-> 1, variant |-> "y"]}

\* One file of every content, and a second file of the same content as one of
\* them under another name.
Files ==
    [path : {<<"logs", "a.log">>}, content : Contents]
    \cup {[path |-> <<"logs", "b.log">>, content |-> [size |-> 1, variant |-> "y"]]}

\* os.path.basename and os.path.getsize
basename(path) == path[Len(path)]

getsize(file) == file.content.size

\* hash_file(path, hash_type='sha256'): equal for equal contents only.
hash_file(file) == <<"sha256", file.content.size, file.content.variant>>

Digests == {hash_file(f) : f \in Files}

\* No reference (None), and the references the repository hands out.
NoRef == <<>>

ArtifactHref(sha256, n) == <<"/pulp/api/v3/artifacts/">> \o sha256 \o <<n>>

UploadHref(size) == <<"/pulp/api/v3/uploads/", size>>

TaskHref(sha256) == <<"/pulp/api/v3/tasks/">> \o sha256

\* No task record was read.
NoTask == [pulp_href |-> NoRef, state |-> "", read |-> 0]

\* One request to the repository: the call, its byte range and total (update),
\* its size (create), its digest (list, commit), the reference it is made
\* against, and whether _request_timeout was passed.
Req(kind, lo, hi, total, sha256, ref, timeout) ==
    [req |-> kind, lo |-> lo, hi |-> hi, total |-> total, sha256 |-> sha256,
     ref |-> ref, timeout |-> timeout]

\* The call state of the uploader at the start of a call; the fail_at-th
\* request of the call raises (0: none does).
UCur(fail_at) ==
    [repo |-> repo, reqs |-> <<>>, raised |-> "", ret |-> NoRef, fail_at |-> fail_at,
     tmp |-> {}, made |-> {}, size |-> 0, task |-> NoTask, detail |-> NoRef]

\* A request is sent; it raises when it is the fail_at-th of the call.
Send(u, rq) ==
    LET u1 == [u EXCEPT !.reqs = Append(@, rq)]
    IN  IF Len(u1.reqs) = u.fail_at THEN [u1 EXCEPT !.raised = "ApiException"] ELSE u1

RECURSIVE ParseInt(_)
\* int(text) of a text of digits
ParseInt(text) ==
    IF Len(text) = 0 THEN 0
    ELSE 10 * ParseInt(SubSeq(text, 1, Len(text) - 1))
         + ((CHOOSE k \in 1..Len(Digits) : Digits[k] = text[Len(text)]) - 1)

TerminalStates == {"completed", "failed"}

RECURSIVE poll_task_any_end(_, _, _, _)
\* A loop that also ends on a canceled task.
poll_task_any_end(u, task_href, states, i) ==
    LET u1 == Send(u, Req("read", 0, 0, 0, <<>>, task_href, i > 1))
        result == [pulp_href |-> task_href, state |-> states[i], read |-> i]
    IN  IF u1.raised # "" THEN u1
        ELSE IF states[i] \notin (TerminalStates \cup {"canceled"})
        THEN poll_task_any_end([u1 EXCEPT !.task = result], task_href, states, i + 1)
        ELSE IF states[i] = "failed"
        THEN [u1 EXCEPT !.task = result, !.raised = "TaskFailedError", !.detail = task_href]
        ELSE [u1 EXCEPT !.task = result]

RECURSIVE poll_task(_, _, _, _)
\* The loop of _wait_for_task_completion; states[i] is what the i-th read of the
\* task reports, and the first read is the one made without a timeout.  The
\* record of the last read is kept in task.
poll_task(u, task_href, states, i) ==
    LET u1 == Send(u, Req("read", 0, 0, 0, <<>>, task_href, i > 1))
        result == [pulp_href |-> task_href, state |-> states[i], read |-> i]
    IN  IF u1.raised # "" THEN u1
        ELSE IF states[i] \notin TerminalStates
        THEN poll_task([u1 EXCEPT !.task = result], task_href, states, i + 1)
        ELSE IF states[i] = "failed"
        THEN [u1 EXCEPT !.task = result, !.raised = "TaskFailedError", !.detail = task_href]
        ELSE [u1 EXCEPT !.task = result]

_wait_for_task_completion(u, task_href, states) == poll_task(u, task_href, states, 1)

_create_upload(u, file) ==
    LET u1 == Send(u, Req("create", 0, 0, getsize(file), <<>>, NoRef, TRUE))
    IN  IF u1.raised # "" THEN u1
        ELSE [u1 EXCEPT !.ret = UploadHref(getsize(file)), !.size = getsize(file)]

\* The repository turns a committed upload into an artifact when its task
\* completes; the reference is the first created resource of the task.
_commit_upload(u, file, reference, states) ==
    LET file_sha256 == hash_file(file)
        u1 == Send(u, Req("commit", 0, 0, 0, file_sha256, reference, TRUE))
        created == ArtifactHref(file_sha256, Len(u.repo[file_sha256]) + 1)
        u2 == IF states[Len(states)] = "completed"
              THEN [u1 EXCEPT !.repo[file_sha256] = Append(@, created)]
              ELSE u1
        u3 == _wait_for_task_completion(u2, TaskHref(file_sha256), states)
    IN  IF u1.raised # "" THEN u1
        ELSE IF u3.raised # "" THEN u3
        ELSE [u3 EXCEPT !.ret = created]

RECURSIVE Join(_)
\* The string of a text.
Join(text) == IF text = <<>> THEN "" ELSE Head(text) \o Join(Tail(text))

\* The name the split gives its n-th chunk file.
ChunkName(n) == "chunk_" \o Join(IntToText(n))

\* Filesplit.split(file, chunk_size): the manifest rows, sizes written as text.
RECURSIVE Filesplit(_, _, _)
Filesplit(size, chunk_size, n) ==
    IF size = 0 THEN <<>>
    ELSE LET this == IF size > chunk_size THEN chunk_size ELSE size
         IN  <<[filename |-> ChunkName(n), filesize |-> IntToText(this)]>>
             \o Filesplit(size - this, chunk_size, n + 1)

RECURSIVE put_chunks_overlap(_, _, _, _, _, _)
\* A loop whose ranges end one byte late.
put_chunks_overlap(u, manifest, i, lower_bytes_limit, total_size, reference) ==
    IF i > Len(manifest) THEN u
    ELSE LET upper_bytes_limit == lower_bytes_limit + ParseInt(manifest[i].filesize)
             u1 == Send(u, Req("update", lower_bytes_limit, upper_bytes_limit, total_size,
                               <<>>, reference, TRUE))
         IN  IF u1.raised # "" THEN u1
             ELSE put_chunks_overlap(u1, manifest, i + 1,
                                     lower_bytes_limit + ParseInt(manifest[i].filesize),
                                     total_size, reference)

RECURSIVE put_chunks(_, _, _, _, _, _)
\* The loop of _put_large_file over the manifest rows from row i on.
put_chunks(u, manifest, i, lower_bytes_limit, total_size, reference) ==
    IF i > Len(manifest) THEN u
    ELSE LET upper_bytes_limit == lower_bytes_limit + ParseInt(manifest[i].filesize) - 1
             u1 == Send(u, Req("update", lower_bytes_limit, upper_bytes_limit, total_size,
                               <<>>, reference, TRUE))
         IN  IF u1.raised # "" THEN u1
             ELSE put_chunks(u1, manifest, i + 1,
                             lower_bytes_limit + ParseInt(manifest[i].filesize),
                             total_size, reference)

\* What may become of the split: it goes through; it fails after writing a
\* first chunk; or it goes through but the manifest cannot be opened.
SplitOutcomes == {"ok", "split_failed", "manifest_unreadable"}

\* tempfile.mkdtemp(prefix='pulp_uploader_')
UploaderTempDir == <<"pulp_uploader_tmp">>

\* The files the split leaves in temp_dir.
SplitFiles(temp_dir, manifest, split) ==
    LET chunks == {Append(temp_dir, manifest[i].filename) : i \in 1..Len(manifest)}
    IN  IF split = "ok" THEN chunks \cup {Append(temp_dir, "fs_manifest.csv")}
        ELSE IF split = "manifest_unreadable" THEN chunks
        ELSE {Append(temp_dir, manifest[i].filename) : i \in {1} \cap DOMAIN manifest}

\* shutil.rmtree(temp_dir) on the paths that exist
rmtree(paths, temp_dir) == {f \in paths : ~IsPrefix(temp_dir, f)}

\* A transfer that removes its directory only when it returns.
_put_large_file_no_finally(u, total_size, manifest, split, reference) ==
    LET temp_dir == UploaderTempDir
        made == {temp_dir} \cup SplitFiles(temp_dir, manifest, split)
        u1 == [u EXCEPT !.tmp = @ \cup made, !.made = @ \cup made]
        u2 == IF split = "ok"
              THEN put_chunks(u1, manifest, 1, 0, total_size, reference)
              ELSE IF split = "split_failed"
              THEN [u1 EXCEPT !.raised = "SplitError"]
              ELSE [u1 EXCEPT !.raised = "FileNotFoundError"]
    IN  IF u2.raised # "" THEN u2
        ELSE [u2 EXCEPT !.tmp = rmtree(@, temp_dir)]

\* _put_large_file of a file of total_size bytes; manifest is what the split
\* writes, and split says what becomes of the split.  tmp holds the paths on
\* disk under the temporary directory, made every path the call created.
_put_large_file(u, total_size, manifest, split, reference) ==
    LET temp_dir == UploaderTempDir
        made == {temp_dir} \cup SplitFiles(temp_dir, manifest, split)
        u1 == [u EXCEPT !.tmp = @ \cup made, !.made = @ \cup made]
        u2 == IF split = "ok"
              THEN put_chunks(u1, manifest, 1, 0, total_size, reference)
              ELSE IF split = "split_failed"
              THEN [u1 EXCEPT !.raised = "SplitError"]
              ELSE [u1 EXCEPT !.raised = "FileNotFoundError"]
    IN  \* finally
        [u2 EXCEPT !.tmp = rmtree(@, temp_dir)]

\* A send that commits the upload before the data was transferred.
_send_file_commit_first(u, file, chunk_size, split, states) ==
    LET c == _create_upload(u, file)
        reference == c.ret
        file_size == c.size
        m == _commit_upload(c, file, reference, states)
        d == IF file_size > chunk_size
             THEN _put_large_file(m, getsize(file), Filesplit(getsize(file), chunk_size, 1),
                                  split, reference)
             ELSE Send(m, Req("update", 0, file_size - 1, file_size, <<>>, reference, TRUE))
    IN  IF c.raised # "" THEN c
        ELSE IF m.raised # "" THEN m
        ELSE d

_send_file(u, file, chunk_size, split, states) ==
    LET c == _create_upload(u, file)
        reference == c.ret
        file_size == c.size
        d == IF file_size > chunk_size
             THEN _put_large_file(c, getsize(file), Filesplit(getsize(file), chunk_size, 1),
                                  split, reference)
             ELSE Send(c, Req("update", 0, file_size - 1, file_size, <<>>, reference, TRUE))
    IN  IF c.raised # "" THEN c
        ELSE IF d.raised # "" THEN d
        ELSE _commit_upload(d, file, reference, states)

check_if_artifact_exists(u, sha256) ==
    LET u1 == Send(u, Req("list", 0, 0, 0, sha256, NoRef, TRUE))
    IN  IF u1.raised # "" THEN u1
        ELSE IF Len(u.repo[sha256]) > 0
        THEN [u1 EXCEPT !.ret = u.repo[sha256][1]]
        ELSE [u1 EXCEPT !.ret = NoRef]

\* An upload that sends the file whatever the existence check returned.
upload_single_file_resend(u, file, chunk_size, split, states) ==
    LET e == check_if_artifact_exists(u, hash_file(file))
    IN  IF e.raised # "" THEN e
        ELSE _send_file(e, file, chunk_size, split, states)

\* upload_single_file: the reference of the record it returns.
upload_single_file(u, file, chunk_size, split, states) ==
    LET file_sha256 == hash_file(file)
        e == check_if_artifact_exists(u, file_sha256)
    IN  IF e.raised # "" THEN e
        ELSE IF e.ret = NoRef
        THEN _send_file(e, file, chunk_size, split, states)
        ELSE e

\* dict(name=os.path.basename(filename), href=reference, type=type_)
UploadRecord(file, reference, type_) ==
    [name |-> basename(file.path), href |-> reference, type |-> type_]

NoRecord == [name |-> "", href |-> NoRef, type |-> ""]

\* What the repository may report on the successive reads of one task: states
\* that are not terminal, then a terminal one.
TaskRuns ==
    UNION {{Append(w, z) : w \in [1..n -> {"running"}], z \in TerminalStates} :
             n \in 0..(MaxReads - 1)}

\* The manifests a chunked transfer may be given.
RowSizes == (1..MaxRowSize) \cup {BigRowSize}

Manifests ==
    UNION {{[i \in 1..n |-> [filename |-> ChunkName(i), filesize |-> IntToText(z[i])]] :
              z \in [1..n -> RowSizes]} : n \in 1..MaxRows}

RECURSIVE SumSizes(_)
SumSizes(manifest) ==
    IF manifest = <<>> THEN 0
    ELSE ParseInt(Head(manifest).filesize) + SumSizes(Tail(manifest))

\* ------------------------------------------------------------- construction
\* The descriptors runners are constructed with.
RunnerArgs ==
    {[dist_name |-> <<"c", "e", "n", "t", "o", "s">>, dist_version |-> Num(7)]}

\* ------------------------------------------------------------------- spec
\* The descriptors package-manager resolution is checked on.
PkgNames ==
    RHEL_FLAVORS \cup DEBIAN_FLAVORS
    \cup {<<"t", "e", "s", "t", "_", "n", "a", "m", "e">>, <<"r", "h", "e", "l">>,
          <<"C", "e", "n", "t", "O", "S">>, <<"F", "e", "d", "o", "r", "a">>,
          <<"U", "B", "U", "N", "T", "U">>}

PkgVersions ==
    {Num(7), Num(8), Num(18), Num(80), Txt(<<"8">>), Txt(<<"8", ".", "3">>),
     Txt(<<"7", ".", "9">>), Txt(<<"7", ".", "8">>), Txt(<<"2", "0", ".", "0", "4">>),
     Txt(<<"3", "3">>), Txt(<<"t", "e", "s", "t">>), Txt(<<"S", "t", "r", "e", "a", "m">>)}

PkgArgs == [dist_name : PkgNames, dist_version : PkgVersions]

\* BaseRunner.__init__ with the arguments a.
__init__(a) ==
    /\ ctor = a
    /\ _work_dir = NoPath
    /\ _artifacts_dir = NoPath
    /\ _dist_name = lower(a.dist_name)
    /\ _dist_version = lower(str(a.dist_version))
    /\ _artifacts = <<>>
    /\ disk = {}
    /\ alive = TRUE
    /\ last = [op |-> "__init__", args |-> <<>>, raised |-> "", ret |-> RetNone,
               trace |-> <<>>]

\* No call of _wait_for_task_completion was made; the task is waiting.
NoPolling == [pc |-> "idle", reads |-> 0, result |-> "", raised |-> "", task |-> "waiting"]

\* No batch upload was started.
NoBatch ==
    [phase |-> "idle", files |-> <<>>, stage |-> <<>>, attempts |-> <<>>, result |-> <<>>,
     success_uploads |-> <<>>, errored_uploads |-> <<>>, raised |-> "",
     error_files |-> <<>>, ret |-> <<>>]

\* PulpBaseUploader.__init__ with the chunk size, against a repository that
\* lists the artifacts r.
UploaderInit(chunk_size, r) ==
    /\ _chunk_size = chunk_size
    /\ repo = r
    /\ fs_manifest = <<>>
    /\ task_reports = <<>>
    /\ polling = NoPolling
    /\ batch = NoBatch
    /\ ulast = [op |-> "__init__", file |-> <<>>, args |-> <<>>, raised |-> "",
                ret |-> NoRecord, reqs |-> <<>>, tmp |-> {}, made |-> {},
                listed_before |-> <<>>,
                task |-> NoTask, detail |-> NoRef]

EmptyRepo == [g \in Digests |-> <<>>]

Init ==
    /\ \E a \in RunnerArgs : __init__(a)
    /\ UploaderInit(1, EmptyRepo)

\* The object after a call that ended in call state s.
Done(op, args, s) ==
    /\ _work_dir' = s._work_dir
    /\ _artifacts_dir' = s._artifacts_dir
    /\ _artifacts' = s._artifacts
    /\ disk' = s.disk
    /\ last' = [op |-> op, args |-> args, raised |-> s.raised, ret |-> s.ret,
                trace |-> s.trace]
    /\ UNCHANGED <<ctor, _dist_name, _dist_version>>
    /\ UNCHANGED uploader_vars

\* The ways the uploads of a publication started in call state s may fail: at
\* most MaxFailedUploads of the files its artifacts directory will hold, each
\* with some error.
UploadFailures(s) ==
    LET names == {FileOrder[i] : i \in {j \in 1..Len(FileOrder) :
                     \/ FileOrder[j] \in LogFiles(s)
                     \/ Append(s._artifacts_dir, FileOrder[j]) \in s.disk}}
    IN  UNION {[bad -> UploadErrors] :
                 bad \in {x \in SUBSET names : Cardinality(x) <= MaxFailedUploads}}

\* The outcomes of shutil.rmtree that can matter in the current state.
RmOutcomes == IF _work_dir \in disk THEN BOOLEAN ELSE {TRUE}

CwdOutcomes == IF _artifacts_dir = NoPath THEN BOOLEAN ELSE {FALSE}

Call_create_work_dir ==
    /\ alive
    /\ \E d \in TempDirs \ disk :
          Done("_create_work_dir", <<>>, _create_work_dir(Cur, d))
    /\ UNCHANGED alive

Call_create_artifacts_dir ==
    /\ alive
    /\ \E d \in TempDirs \ disk :
          Done("_create_artifacts_dir", <<>>, _create_artifacts_dir(Cur, d))
    /\ UNCHANGED alive

CallPrepareWorkDirFiles ==
    /\ alive
    /\ \E d \in TempDirs \ disk, inv \in BOOLEAN, copy_ok \in BOOLEAN :
          Done("prepare_work_dir_files", <<>>, prepare_work_dir_files(Cur, d, inv, copy_ok))
    /\ UNCHANGED alive

CallInitializeTerraform ==
    /\ alive
    /\ \E r \in CmdResults :
          Done("initialize_terraform", <<>>, initialize_terraform(Cur, r))
    /\ UNCHANGED alive

CallStartEnv ==
    /\ alive
    /\ \E r \in CmdResults : Done("start_env", <<>>, start_env(Cur, r))
    /\ UNCHANGED alive

CallInitialProvision ==
    /\ alive
    /\ \E r \in CmdResults, verbose \in BOOLEAN :
          Done("initial_provision", <<>>, initial_provision(Cur, verbose, r))
    /\ UNCHANGED alive

CallInstallPackage ==
    /\ alive
    /\ \E r \in CmdResults, v \in {"", "1.0"} :
          Done("install_package", <<"pkg", v>>, install_package(Cur, "pkg", v, r))
    /\ UNCHANGED alive

CallStopEnv ==
    /\ alive
    /\ \E r \in CmdResults : Done("stop_env", <<>>, stop_env(Cur, r))
    /\ UNCHANGED alive

CallPublishArtifactsToStorage ==
    /\ alive
    /\ \E fails \in UploadFailures(Cur), cwd_files \in CwdOutcomes :
          Done("publish_artifacts_to_storage", <<>>,
               publish_artifacts_to_storage(Cur, fails, cwd_files))
    /\ UNCHANGED alive

CallEraseWorkDir ==
    /\ alive
    /\ \E rm_ok \in RmOutcomes : Done("erase_work_dir", <<>>, erase_work_dir(Cur, rm_ok))
    /\ UNCHANGED alive

CallSetup ==
    /\ alive
    /\ \E d \in TempDirs \ disk, copy_ok \in BOOLEAN, r1, r2, r3 \in CmdResults :
          Done("setup", <<>>, setup(Cur, d, copy_ok, r1, r2, r3))
    /\ UNCHANGED alive

CallTeardown ==
    /\ alive
    /\ \E publish_artifacts \in BOOLEAN, r \in CmdResults, rm_ok \in RmOutcomes :
          \E fails \in (IF publish_artifacts THEN UploadFailures(stop_env(Cur, r))
                         ELSE {<<>>}),
             cwd_files \in (IF publish_artifacts THEN CwdOutcomes ELSE {FALSE}) :
             Done("teardown", <<IF publish_artifacts THEN "True" ELSE "False">>,
                  teardown(Cur, publish_artifacts, r, fails, cwd_files, rm_ok))
    /\ UNCHANGED alive

\* The instance is discarded: no call follows.
CallDel ==
    /\ alive
    /\ \E r \in CmdResults, rm_ok \in RmOutcomes :
          Done("__del__", <<>>, __del__(Cur, r, rm_ok))
    /\ alive' = FALSE

Next ==
    \/ Call_create_work_dir
    \/ Call_create_artifacts_dir
    \/ CallPrepareWorkDirFiles
    \/ CallInitializeTerraform
    \/ CallStartEnv
    \/ CallInitialProvision
    \/ CallInstallPackage
    \/ CallStopEnv
    \/ CallEraseWorkDir
    \/ CallSetup
    \/ CallDel

Spec == Init /\ [][Next]_vars

\* Reading the pkg_manager property.
CallPkgManager ==
    /\ alive
    /\ last' = [op |-> "pkg_manager", args |-> <<>>, raised |-> pkg_manager.raised,
                ret |-> IF pkg_manager.raised = "" THEN RetStr(pkg_manager.value)
                        ELSE RetNone,
                trace |-> <<>>]
    /\ UNCHANGED <<_work_dir, _artifacts_dir, _artifacts, _dist_name, _dist_version,
                   disk, ctor, alive>>
    /\ UNCHANGED uploader_vars

InitPkg ==
    /\ \E a \in PkgArgs : __init__(a)
    /\ UploaderInit(1, EmptyRepo)

NextPkg == CallPkgManager

SpecPkg == InitPkg /\ [][NextPkg]_vars

\* Package installation on runners of every package manager, and of a
\* distribution no package manager is known for.
InstallArgs ==
    {[dist_name |-> <<"c", "e", "n", "t", "o", "s">>, dist_version |-> Num(7)],
     [dist_name |-> <<"C", "e", "n", "t", "O", "S">>, dist_version |-> Num(8)],
     [dist_name |-> <<"f", "e", "d", "o", "r", "a">>, dist_version |-> Num(33)],
     [dist_name |-> <<"u", "b", "u", "n", "t", "u">>,
      dist_version |-> Txt(<<"2", "0", ".", "0", "4">>)],
     [dist_name |-> <<"t", "e", "s", "t", "_", "n", "a", "m", "e">>, dist_version |-> Num(7)]}

InitInstall ==
    /\ \E a \in InstallArgs : __init__(a)
    /\ UploaderInit(1, EmptyRepo)

NextInstall ==
    \/ Call_create_work_dir
    \/ CallInstallPackage
    \/ CallEraseWorkDir

SpecInstall == InitInstall /\ [][NextInstall]_vars

\* Publication and teardown.  The artifact map and the log files on disk are
\* independent per key, so this specification calls two of the wrapped steps
\* (initialize_terraform, and stop_env inside teardown) rather than all five.
NextTeardown ==
    \/ Call_create_work_dir
    \/ Call_create_artifacts_dir
    \/ CallPrepareWorkDirFiles
    \/ CallInitializeTerraform
    \/ CallPublishArtifactsToStorage
    \/ CallEraseWorkDir
    \/ CallTeardown

SpecTeardown == Init /\ [][NextTeardown]_vars

\* The virtual-machine runner: its start and its reachability polling, on a
\* machine that answers from some check on, or never within the retries.
CallVMStartEnv ==
    /\ alive
    /\ \E r_apply \in CmdResults, r_output \in CmdResults, render_ok \in BOOLEAN,
          first_ok \in 1..(retries + 2) :
          /\ first_ok = 1 \/ (r_apply.exit_code = 0 /\ r_output.exit_code = 0 /\ render_ok)
          /\ Done("GenericVMRunner.start_env", <<first_ok>>,
                  GenericVMRunner_start_env(Cur, r_apply, r_output, render_ok, first_ok))
    /\ UNCHANGED alive

Call_wait_for_ssh ==
    /\ alive
    /\ \E first_ok \in 1..(retries + 2) :
          Done("_wait_for_ssh", <<first_ok>>, _wait_for_ssh(Cur, first_ok))
    /\ UNCHANGED alive

NextVM ==
    \/ Call_create_work_dir
    \/ CallEraseWorkDir
    \/ CallVMStartEnv
    \/ Call_wait_for_ssh

SpecVM == Init /\ [][NextVM]_vars

\* The uploader.  The repository may list artifacts before the first call: none,
\* or two artifacts of the one-byte content "y".
InitRepos ==
    {EmptyRepo,
     [EmptyRepo EXCEPT ![<<"sha256", 1, "y">>] =
         [i \in 1..2 |-> ArtifactHref(<<"sha256", 1, "y">>, i)]]}

InitUpload ==
    /\ \E a \in RunnerArgs : __init__(a)
    /\ \E chunk_size \in 1..MaxChunkSize, r \in InitRepos : UploaderInit(chunk_size, r)

\* The uploader after a call that ended in call state u.
UDone(op, file, args, u, ret) ==
    /\ repo' = u.repo
    /\ ulast' = [op |-> op, file |-> file, args |-> args, raised |-> u.raised,
                 ret |-> IF u.raised = "" THEN ret ELSE NoRecord,
                 reqs |-> u.reqs, tmp |-> u.tmp, made |-> u.made,
                 listed_before |-> IF file = <<>> THEN <<>> ELSE repo[hash_file(file)],
                 task |-> u.task, detail |-> u.detail]
    /\ UNCHANGED <<_chunk_size, fs_manifest, task_reports, polling, batch, runner_vars>>

\* The requests a call can make are fewer than this.
MaxRequests == 1 + 1 + MaxFileSize + 1 + MaxReads

\* The inputs that cannot differ in effect are taken once: the split outcome of
\* a file that is not split, the task run and the failing request of a call
\* that does not get that far, the type of a call that raises.
SplitInputs(file) ==
    IF repo[hash_file(file)] = <<>> /\ getsize(file) > _chunk_size
    THEN SplitOutcomes ELSE {"ok"}

TaskInputs(file, split) ==
    IF repo[hash_file(file)] = <<>> /\ split = "ok" THEN TaskRuns ELSE {<<"completed">>}

FailInputs(file) == IF repo[hash_file(file)] = <<>> THEN 0..MaxRequests ELSE 0..1

TypeInputs(fail_at) == IF fail_at = 0 THEN {"test_log", "build_log"} ELSE {"test_log"}

CallUploadSingleFile ==
    \E file \in Files :
      \E split \in SplitInputs(file), fail_at \in FailInputs(file) :
        \E states \in TaskInputs(file, split), type_ \in TypeInputs(fail_at) :
          LET u == upload_single_file(UCur(fail_at), file, _chunk_size, split, states)
          IN  IF /\ fail_at <= Len(u.reqs)
                 /\ states # <<"completed">> =>
                       \E i \in 1..Len(u.reqs) : u.reqs[i].req = "read"
              THEN UDone("upload_single_file", file, <<type_>>, u,
                         UploadRecord(file, u.ret, type_))
              ELSE FALSE

CallCheckIfArtifactExists ==
    \E file \in Files, fail_at \in 0..1 :
       LET u == check_if_artifact_exists(UCur(fail_at), hash_file(file))
       IN  UDone("check_if_artifact_exists", file, <<>>, u, UploadRecord(file, u.ret, ""))

NextUpload ==
    \/ CallUploadSingleFile
    \/ CallCheckIfArtifactExists

SpecUpload == InitUpload /\ [][NextUpload]_vars

\* A chunked transfer of a file, on every manifest the splitter may write
\* for it.
InitChunks ==
    /\ \E a \in RunnerArgs : __init__(a)
    /\ _chunk_size = 1
    /\ repo = EmptyRepo
    /\ fs_manifest \in Manifests
    /\ task_reports = <<>>
    /\ polling = NoPolling
    /\ batch = NoBatch
    /\ ulast = [op |-> "__init__", file |-> <<>>, args |-> <<>>, raised |-> "",
                ret |-> NoRecord, reqs |-> <<>>, tmp |-> {}, made |-> {},
                listed_before |-> <<>>,
                task |-> NoTask, detail |-> NoRef]

Call_put_large_file ==
    \E fail_at \in 0..MaxRows, split \in SplitOutcomes :
       LET total_size == SumSizes(fs_manifest)
           u == _put_large_file(UCur(fail_at), total_size, fs_manifest, split,
                                UploadHref(total_size))
       IN  /\ fail_at <= Len(fs_manifest)
           /\ split = "ok" \/ fail_at = 0
           /\ UDone("_put_large_file", <<>>, <<total_size>>, u, NoRecord)

NextChunks == Call_put_large_file

SpecChunks == InitChunks /\ [][NextChunks]_vars

\* ------------------------------------------------------------ task polling
\* The states a task may be reported in.
TaskStates == {"waiting", "running", "completed", "failed", "canceled"}

\* What the repository may report on successive reads of one task, whatever
\* the order, as long as some read reports a state that ends the loop.
PollRuns ==
    {w \in UNION {[1..n -> TaskStates] : n \in 1..(MaxReads + 1)} :
        \E i \in 1..Len(w) : w[i] \in TerminalStates}

PolledTask == TaskHref(<<"sha256", 1, "x">>)

InitPoll ==
    /\ \E a \in RunnerArgs : __init__(a)
    /\ _chunk_size = 1
    /\ repo = EmptyRepo
    /\ fs_manifest = <<>>
    /\ task_reports \in PollRuns
    /\ polling = NoPolling
    /\ batch = NoBatch
    /\ ulast = [op |-> "__init__", file |-> <<>>, args |-> <<>>, raised |-> "",
                ret |-> NoRecord, reqs |-> <<>>, tmp |-> {}, made |-> {},
                listed_before |-> <<>>,
                task |-> NoTask, detail |-> NoRef]

Call_wait_for_task_completion ==
    \E fail_at \in 0..(MaxReads + 1) :
       LET u == _wait_for_task_completion(UCur(fail_at), PolledTask, task_reports)
       IN  /\ fail_at <= Len(u.reqs)
           /\ UDone("_wait_for_task_completion", <<>>, <<fail_at>>, u, NoRecord)

NextPoll == Call_wait_for_task_completion

SpecPoll == InitPoll /\ [][NextPoll]_vars

\* ------------------------------------------------- task polling, by steps
\* One call of _wait_for_task_completion, read by read, against a task that
\* goes its own way.  The reads are counted up to MaxPollCount and not beyond.
CountRead(n) == IF n < MaxPollCount THEN n + 1 ELSE n

\* The call is made.
PollStart ==
    /\ polling.pc = "idle"
    /\ polling' = [polling EXCEPT !.pc = "read"]
    /\ UNCHANGED <<repo, _chunk_size, fs_manifest, task_reports, ulast, batch, runner_vars>>

\* A loop that gives up after two reads.
PollRead_ceiling ==
    /\ polling.pc = "read"
    /\ polling' =
          IF polling.task = "failed"
          THEN [polling EXCEPT !.reads = CountRead(@), !.result = polling.task,
                               !.pc = "raised", !.raised = "TaskFailedError"]
          ELSE IF polling.task = "completed"
          THEN [polling EXCEPT !.reads = CountRead(@), !.result = polling.task,
                               !.pc = "returned"]
          ELSE IF polling.reads >= 2
          THEN [polling EXCEPT !.reads = CountRead(@), !.result = polling.task,
                               !.pc = "raised", !.raised = "TimeoutError"]
          ELSE [polling EXCEPT !.reads = CountRead(@), !.result = polling.task,
                               !.pc = "sleep"]
    /\ UNCHANGED <<repo, _chunk_size, fs_manifest, task_reports, ulast, batch, runner_vars>>

\* A read of the task that answers: the loop ends on 'failed' and on
\* 'completed', and otherwise sleeps.
PollRead ==
    /\ polling.pc = "read"
    /\ polling' =
          IF polling.task = "failed"
          THEN [polling EXCEPT !.reads = CountRead(@), !.result = polling.task,
                               !.pc = "raised", !.raised = "TaskFailedError"]
          ELSE IF polling.task = "completed"
          THEN [polling EXCEPT !.reads = CountRead(@), !.result = polling.task,
                               !.pc = "returned"]
          ELSE [polling EXCEPT !.reads = CountRead(@), !.result = polling.task,
                               !.pc = "sleep"]
    /\ UNCHANGED <<repo, _chunk_size, fs_manifest, task_reports, ulast, batch, runner_vars>>

\* A read of the task that raises.
PollReadRaises ==
    /\ polling.pc = "read"
    /\ polling' = [polling EXCEPT !.reads = CountRead(@), !.pc = "raised",
                                  !.raised = "ApiException"]
    /\ UNCHANGED <<repo, _chunk_size, fs_manifest, task_reports, ulast, batch, runner_vars>>

\* time.sleep(20) returns.
PollSleep ==
    /\ polling.pc = "sleep"
    /\ polling' = [polling EXCEPT !.pc = "read"]
    /\ UNCHANGED <<repo, _chunk_size, fs_manifest, task_reports, ulast, batch, runner_vars>>

\* The repository's task moves on: a waiting task starts or is canceled, a
\* running task completes, fails or is canceled.
TaskProgress ==
    /\ \E next \in TaskStates :
          /\ \/ polling.task = "waiting" /\ next \in {"running", "canceled"}
             \/ polling.task = "running" /\ next \in {"completed", "failed", "canceled"}
          /\ polling' = [polling EXCEPT !.task = next]
    /\ UNCHANGED <<repo, _chunk_size, fs_manifest, task_reports, ulast, batch, runner_vars>>

NextPollSteps ==
    \/ PollStart
    \/ PollRead
    \/ PollReadRaises
    \/ PollSleep
    \/ TaskProgress

\* The loop's thread keeps running: a sleep returns, and a read is answered.
SpecPollSteps ==
    /\ Init
    /\ [][NextPollSteps]_vars
    /\ WF_vars(PollSleep)
    /\ WF_vars(PollRead)

\* ------------------------------------------------------------ batch upload
\* The files get_artifacts_list may enumerate: none, one, or five files, two of
\* them of one content.
BatchFiles ==
    <<[path |-> <<"logs", "a.log">>, content |-> [size |-> 1, variant |-> "x"]],
      [path |-> <<"logs", "b.log">>, content |-> [size |-> 1, variant |-> "y"]],
      [path |-> <<"logs", "c.log">>, content |-> [size |-> 1, variant |-> "y"]],
      [path |-> <<"logs", "d.log">>, content |-> [size |-> 0, variant |-> "x"]],
      [path |-> <<"logs", "e.log">>, content |-> [size |-> MaxFileSize, variant |-> "x"]]>>

BatchLists == {<<>>, SubSeq(BatchFiles, 2, 2), BatchFiles}

\* ThreadPoolExecutor(max_workers=4)
max_workers == 4

Running(b) == {i \in 1..Len(b.files) : b.stage[i] \in {"check", "send"}}

\* upload(): every enumerated file is submitted before the first result is
\* awaited.
UploadSubmit ==
    /\ batch.phase = "idle"
    /\ \E files \in BatchLists :
          batch' = [NoBatch EXCEPT !.phase = "submitted", !.files = files,
                                   !.stage = [i \in 1..Len(files) |-> "queued"],
                                   !.attempts = [i \in 1..Len(files) |-> 0],
                                   !.result = [i \in 1..Len(files) |-> NoRecord]]
    /\ UNCHANGED <<repo, _chunk_size, fs_manifest, task_reports, polling, ulast, runner_vars>>

\* A free worker takes the oldest queued call and starts upload_single_file.
WorkerTake ==
    /\ batch.phase = "submitted"
    /\ Cardinality(Running(batch)) < max_workers
    /\ \E i \in 1..Len(batch.files) :
          /\ batch.stage[i] = "queued"
          /\ \A j \in 1..(i - 1) : batch.stage[j] # "queued"
          /\ batch' = [batch EXCEPT !.stage[i] = "check", !.attempts[i] = @ + 1]
    /\ UNCHANGED <<repo, _chunk_size, fs_manifest, task_reports, polling, ulast, runner_vars>>

\* A worker's existence check: it raises, or finds a reference and returns
\* the record, or finds none and goes on to send.
WorkerCheck ==
    /\ batch.phase = "submitted"
    /\ \E i \in 1..Len(batch.files), fail_at \in 0..1 :
          LET file == batch.files[i]
              u == check_if_artifact_exists(UCur(fail_at), hash_file(file))
          IN  /\ batch.stage[i] = "check"
              /\ batch' = IF u.raised # "" THEN [batch EXCEPT !.stage[i] = "raised"]
                          ELSE IF u.ret = NoRef THEN [batch EXCEPT !.stage[i] = "send"]
                          ELSE [batch EXCEPT !.stage[i] = "returned",
                                             !.result[i] = UploadRecord(file, u.ret, "test_log")]
    /\ UNCHANGED <<repo, _chunk_size, fs_manifest, task_reports, polling, ulast, runner_vars>>

\* A worker's full send: it raises, or returns the record of the new artifact.
WorkerSend ==
    /\ batch.phase = "submitted"
    /\ \E i \in 1..Len(batch.files), fail_at \in 0..1, state \in TerminalStates :
          LET file == batch.files[i]
              u == _send_file(UCur(fail_at), file, _chunk_size, "ok", <<state>>)
          IN  /\ batch.stage[i] = "send"
              /\ repo' = u.repo
              /\ batch' = IF u.raised # "" THEN [batch EXCEPT !.stage[i] = "raised"]
                          ELSE [batch EXCEPT !.stage[i] = "returned",
                                             !.result[i] = UploadRecord(file, u.ret, "test_log")]
    /\ UNCHANGED <<_chunk_size, fs_manifest, task_reports, polling, ulast, runner_vars>>

\* A loop that forgets the files whose call raised.
UploadCollect_forgetful ==
    /\ batch.phase = "submitted"
    /\ \E i \in 1..Len(batch.files) :
          \/ /\ batch.stage[i] = "returned"
             /\ batch' = [batch EXCEPT !.stage[i] = "collected",
                                       !.success_uploads = Append(@, batch.result[i])]
          \/ /\ batch.stage[i] = "raised"
             /\ batch' = [batch EXCEPT !.stage[i] = "collected"]
    /\ UNCHANGED <<repo, _chunk_size, fs_manifest, task_reports, polling, ulast, runner_vars>>

\* The loop over as_completed: a finished future is taken, in whichever
\* order they finished, and lands in one of the two lists.
UploadCollect ==
    /\ batch.phase = "submitted"
    /\ \E i \in 1..Len(batch.files) :
          \/ /\ batch.stage[i] = "returned"
             /\ batch' = [batch EXCEPT !.stage[i] = "collected",
                                       !.success_uploads = Append(@, batch.result[i])]
          \/ /\ batch.stage[i] = "raised"
             /\ batch' = [batch EXCEPT !.stage[i] = "collected",
                                       !.errored_uploads = Append(@, batch.files[i])]
    /\ UNCHANGED <<repo, _chunk_size, fs_manifest, task_reports, polling, ulast, runner_vars>>

\* After the loop: UploadError if a file is in the errored list, else the
\* list of records.
UploadReturn ==
    /\ batch.phase = "submitted"
    /\ \A i \in 1..Len(batch.files) : batch.stage[i] = "collected"
    /\ batch' = IF batch.errored_uploads # <<>>
                THEN [batch EXCEPT !.phase = "done", !.raised = "UploadError",
                                   !.error_files = batch.errored_uploads]
                ELSE [batch EXCEPT !.phase = "done", !.ret = batch.success_uploads]
    /\ UNCHANGED <<repo, _chunk_size, fs_manifest, task_reports, polling, ulast, runner_vars>>

InitBatch ==
    /\ \E a \in RunnerArgs : __init__(a)
    /\ \E r \in InitRepos : UploaderInit(1, r)

NextBatch ==
    \/ UploadSubmit
    \/ WorkerTake
    \/ WorkerCheck
    \/ WorkerSend
    \/ UploadCollect
    \/ UploadReturn

SpecBatch == InitBatch /\ [][NextBatch]_vars

\* ================================================================== claims
Steps == {"initialize_terraform", "start_env", "initial_provision", "install_package",
          "stop_env"}

\* The artifact key and the failure kind the specification gives each step.
StepKey(op) ==
    CASE op = "initialize_terraform" -> "initialize_terraform"
      [] op = "start_env" -> "start_environment"
      [] op = "initial_provision" -> "initial_provision"
      [] op = "install_package" -> "install_package"
      [] op = "stop_env" -> "stop_environment"

StepError(op) ==
    CASE op = "initialize_terraform" -> "TerraformInitializationError"
      [] op = "start_env" -> "StartEnvironmentError"
      [] op = "initial_provision" -> "ProvisionError"
      [] op = "install_package" -> "InstallPackageError"
      [] op = "stop_env" -> "StopEnvironmentError"

\* No working directory is recorded, or the recorded one is not on disk.
NoWorkDirOnDisk == _work_dir = NoPath \/ _work_dir \notin disk

HasEvent(tr, kinds) == \E i \in 1..Len(tr) : tr[i].ev \in kinds

\* C1: a wrapped lifecycle step called when no working directory is recorded,
\* or when the recorded one is not on disk, runs no external command, leaves
\* the artifact map (and the disk) unchanged, raises nothing and returns None.
C1_StepIsNoOpWithoutWorkDir ==
    [][(last'.op \in Steps /\ NoWorkDirOnDisk)
          => /\ last'.trace = <<>>
             /\ _artifacts' = _artifacts
             /\ disk' = disk
             /\ last'.raised = ""
             /\ last'.ret = RetNone]_vars

\* A step was called on a runner whose recorded working directory was erased
\* and whose artifact map holds records: nothing ran.
C1_Witness ==
    /\ last.op \in Steps
    /\ _work_dir # NoPath
    /\ _work_dir \notin disk
    /\ DOMAIN _artifacts # {}
    /\ last.trace = <<>>

\* C2: when a wrapped step ran its external command, the artifact map holds the
\* exit code, stdout and stderr of that run under the step's key; a non-zero
\* exit code raises the step's failure kind, and exit code 0 returns the
\* (exit_code, stdout, stderr) tuple without raising.
C2_RecordStoredThenRaised ==
    (last.op \in Steps /\ last.trace # <<>>) =>
        LET e == last.trace[1]
            key == StepKey(last.op)
        IN  /\ Len(last.trace) = 1
            /\ e.ev = "run"
            /\ key \in DOMAIN _artifacts
            /\ _artifacts[key] = [exit_code |-> e.code, stdout |-> e.stdout,
                                  stderr |-> e.stderr]
            /\ (e.code # 0 => last.raised = StepError(last.op))
            /\ (e.code = 0 =>
                  /\ last.raised = ""
                  /\ last.ret = [kind |-> "tuple", exit_code |-> 0, stdout |-> e.stdout,
                                 stderr |-> e.stderr, path |-> NoPath])

\* stop_env ran terraform destroy, which failed: the record is stored and
\* StopEnvironmentError left the step.
C2_Witness ==
    /\ last.op = "stop_env"
    /\ last.raised = "StopEnvironmentError"
    /\ "stop_environment" \in DOMAIN _artifacts
    /\ _artifacts["stop_environment"].exit_code = 1
    /\ _artifacts["stop_environment"].stderr = "err"

\* The step an event of setup() belongs to.
SetupLabel(e) ==
    IF e.ev = "prepare" THEN "prepare"
    ELSE IF e.arg[1] = "terraform" THEN e.arg[2]
    ELSE e.arg[Len(e.arg)]

SetupOrder == <<"prepare", "init", "apply", "initial_provision">>

SetupErrors == <<"WorkDirPreparationError", "TerraformInitializationError",
                 "StartEnvironmentError", "ProvisionError">>

SetupEvents == SelectSeq(last.trace, LAMBDA e : e.ev \in {"prepare", "run"})

\* C3: setup() runs prepare_work_dir_files, terraform init, terraform apply and
\* the initial_provision playbook in this order, each only after the one before
\* it succeeded; the first failure leaves setup() as the failure kind of that
\* step and nothing later runs; a normal return leaves exit code 0 records under
\* initialize_terraform, start_environment and initial_provision.
C3_SetupRunsInOrderAndStopsAtFailure ==
    last.op = "setup" =>
        LET n == Len(SetupEvents)
        IN  /\ n \in 1..4
            /\ \A i \in 1..n : SetupLabel(SetupEvents[i]) = SetupOrder[i]
            /\ \A i \in 1..(n - 1) : SetupEvents[i].code = 0
            /\ (SetupEvents[n].code # 0 => last.raised = SetupErrors[n])
            /\ (SetupEvents[n].code = 0 =>
                  /\ n = 4
                  /\ last.raised = ""
                  /\ \A k \in {"initialize_terraform", "start_environment",
                               "initial_provision"} :
                        k \in DOMAIN _artifacts /\ _artifacts[k].exit_code = 0)

\* setup() stopped at a failed terraform apply: the playbook was not run.
C3_Witness ==
    /\ last.op = "setup"
    /\ last.raised = "StartEnvironmentError"
    /\ Len(SetupEvents) = 3
    /\ "initial_provision" \notin DOMAIN _artifacts

\* C4: in teardown(publish_artifacts) nothing is written or uploaded before
\* terraform destroy has ended with exit code 0, the working directory is
\* erased only after publication has ended without raising, and with
\* publish_artifacts false no log file is written and nothing is uploaded.
C4_TeardownOrder ==
    last.op = "teardown" =>
        LET tr == last.trace
        IN  /\ \A i, j \in 1..Len(tr) :
                  i < j => /\ ~(tr[i].ev \in {"write", "upload", "rmtree"} /\ tr[j].ev = "run")
                           /\ ~(tr[i].ev = "rmtree" /\ tr[j].ev \in {"write", "upload"})
            /\ HasEvent(tr, {"write", "upload", "rmtree"})
                  => \A i \in 1..Len(tr) : tr[i].ev = "run" => tr[i].code = 0
            /\ HasEvent(tr, {"rmtree"})
                  => /\ last.raised = ""
                     /\ \A i \in 1..Len(tr) : tr[i].ev = "upload" => tr[i].code = 0
            /\ last.args = <<"False">> => ~HasEvent(tr, {"write", "upload"})

\* A teardown that stopped the environment, wrote and uploaded logs and then
\* erased the working directory.
C4_Witness ==
    /\ last.op = "teardown"
    /\ last.args = <<"True">>
    /\ HasEvent(last.trace, {"run"})
    /\ HasEvent(last.trace, {"write"})
    /\ HasEvent(last.trace, {"upload"})
    /\ last.trace[Len(last.trace)].ev = "rmtree"

\* C5: when a runner is discarded while its working directory is on disk,
\* terraform destroy is run and afterwards the working directory is erased,
\* whatever exit code destroy returned.
C5_DiscardAlwaysErases ==
    (last.op = "__del__" /\ HasEvent(last.trace, {"run"})) =>
        /\ last.trace[1].ev = "run"
        /\ Len(last.trace) = 2
        /\ last.trace[2].ev = "rmtree"

\* The descriptor table of the specification.
C6_Rhel == {<<"f", "e", "d", "o", "r", "a">>, <<"c", "e", "n", "t", "o", "s">>,
            <<"a", "l", "m", "a", "l", "i", "n", "u", "x">>,
            <<"c", "l", "o", "u", "d", "l", "i", "n", "u", "x">>}

C6_Debian == {<<"d", "e", "b", "i", "a", "n">>, <<"u", "b", "u", "n", "t", "u">>,
              <<"r", "a", "s", "p", "b", "i", "a", "n">>}

C6_Expected(name, version) ==
    IF name = <<"f", "e", "d", "o", "r", "a">>
       \/ (name \in C6_Rhel /\ \E i \in 1..Len(version) : version[i] = "8")
    THEN "dnf"
    ELSE IF name \in C6_Rhel THEN "yum"
    ELSE IF name \in C6_Debian THEN "apt-get"
    ELSE "ValueError"

\* C6: pkg_manager is decided by the lowercased name and the lowercased text of
\* the version: fedora, or a RHEL-family name with an 8 in the version, gives
\* dnf; another RHEL-family name yum; a debian-family name apt-get; any other
\* name raises ValueError; the number 8 is read as the text "8".
C6_PkgManagerTable ==
    /\ (ctor.dist_version.is_int /\ ctor.dist_version.n = 8) => _dist_version = <<"8">>
    /\ last.op = "pkg_manager" =>
          LET want == C6_Expected(_dist_name, _dist_version)
          IN  IF want = "ValueError"
              THEN last.raised = "ValueError"
              ELSE last.raised = "" /\ last.ret.kind = "str" /\ last.ret.stdout = want

\* pkg_manager was read on a runner constructed with ('CentOS', 8): dnf.
C6_Witness ==
    /\ last.op = "pkg_manager"
    /\ ctor.dist_name = <<"C", "e", "n", "t", "O", "S">>
    /\ ctor.dist_version = Num(8)
    /\ last.ret.stdout = "dnf"

\* C7: _create_work_dir called again right after _create_work_dir returns the
\* same path and creates nothing; called when no directory is recorded, or the
\* recorded one is not on disk, it creates one directory that was not on disk
\* and records it; otherwise it returns the recorded directory unchanged.
C7_CreateWorkDirIdempotent ==
    [][(last'.op = "_create_work_dir")
          => /\ last'.raised = ""
             /\ last'.ret = RetPath(_work_dir')
             /\ _work_dir' \in disk'
             /\ (last.op = "_create_work_dir"
                   => last'.ret = last.ret /\ last'.trace = <<>> /\ disk' = disk)
             /\ IF NoWorkDirOnDisk
                THEN /\ Len(last'.trace) = 1
                     /\ last'.trace[1].ev = "mkdtemp"
                     /\ last'.trace[1].arg = _work_dir'
                     /\ _work_dir' \notin disk
                     /\ disk' = disk \cup {_work_dir'}
                ELSE /\ last'.trace = <<>>
                     /\ _work_dir' = _work_dir
                     /\ disk' = disk]_vars

\* _create_work_dir was called while the recorded directory was on disk: it
\* returned that directory and created nothing.
C7_Witness ==
    /\ last.op = "_create_work_dir"
    /\ last.trace = <<>>
    /\ last.ret = RetPath(_work_dir)
    /\ _work_dir \in disk

\* C8: _create_artifacts_dir, called in any state of the runner, returns
\* <working directory>/artifacts, and both the working directory and that
\* directory are on disk when it returns.
C8_ArtifactsDirAlwaysCreated ==
    last.op = "_create_artifacts_dir" =>
        /\ last.raised = ""
        /\ _work_dir \in disk
        /\ last.ret = RetPath(Append(_work_dir, "artifacts"))
        /\ Append(_work_dir, "artifacts") \in disk
\* ---------------------------------------------------------------------- C9
SendKinds == {"create", "update", "commit"}

SentKinds == {ulast.reqs[i].req : i \in 1..Len(ulast.reqs)}

\* C9: a call of upload_single_file for a file whose digest the repository
\* already lists issues the existence check and nothing else (no create, no
\* update, no commit), and when it returns it returns the record of the file's
\* base name, the reference of the first listed artifact and the supplied type;
\* a call that issues a create, an update or a commit was made when the
\* repository listed no artifact of the digest.
C9_ListedContentIsNotResent ==
    ulast.op = "upload_single_file" =>
        /\ ulast.listed_before # <<>> =>
              /\ SentKinds = {"list"}
              /\ Len(ulast.reqs) = 1
              /\ ulast.reqs[1].sha256 = hash_file(ulast.file)
              /\ repo[hash_file(ulast.file)] = ulast.listed_before
              /\ ulast.raised = "" =>
                    ulast.ret = [name |-> ulast.file.path[2],
                                 href |-> ulast.listed_before[1],
                                 type |-> ulast.args[1]]
        /\ SentKinds \cap SendKinds # {} => ulast.listed_before = <<>>
        /\ ulast.listed_before = <<>> /\ ulast.raised = "" =>
              /\ SendKinds \subseteq SentKinds
              /\ ulast.ret.href = repo[hash_file(ulast.file)][1]

\* A second file of the content of a file uploaded before, under another name
\* and with another type, is answered from the listing.
C9_Witness ==
    /\ ulast.op = "upload_single_file"
    /\ ulast.raised = ""
    /\ Len(ulast.listed_before) = 1
    /\ ulast.file.path = <<"logs", "b.log">>
    /\ ulast.args = <<"build_log">>
    /\ ulast.ret.href = ulast.listed_before[1]
    /\ Len(ulast.reqs) = 1

\* --------------------------------------------------------------------- C10
\* The size a manifest row states, read back from its text.
RowSize(row) == CHOOSE k \in 0..(BigRowSize + MaxRowSize) : IntToText(k) = row.filesize

RECURSIVE RowsTotal(_)
RowsTotal(n) == IF n = 0 THEN 0 ELSE RowsTotal(n - 1) + RowSize(fs_manifest[n])

\* C10: the update requests of a chunked transfer follow the manifest rows in
\* order: the first range starts at byte 0, every range is as long as its row
\* says, every range starts one byte after the previous one ends, every request
\* states the sum of the row sizes as the total, and when the transfer returns
\* there is one request per row and the last range ends at total - 1.
C10_ChunkRangesContiguous ==
    ulast.op = "_put_large_file" /\ ulast.raised # "SplitError" =>
        LET n == Len(ulast.reqs)
            total == RowsTotal(Len(fs_manifest))
        IN  /\ n <= Len(fs_manifest)
            /\ \A i \in 1..n :
                  /\ ulast.reqs[i].req = "update"
                  /\ ulast.reqs[i].total = total
                  /\ ulast.reqs[i].lo = RowsTotal(i - 1)
                  /\ ulast.reqs[i].hi = RowsTotal(i) - 1
                  /\ ulast.reqs[i].hi - ulast.reqs[i].lo + 1 = RowSize(fs_manifest[i])
                  /\ i > 1 => ulast.reqs[i].lo = ulast.reqs[i - 1].hi + 1
            /\ n >= 1 => ulast.reqs[1].lo = 0
            /\ ulast.raised = "" =>
                  /\ n = Len(fs_manifest)
                  /\ ulast.reqs[n].hi = total - 1

\* A transfer of three rows of different sizes, one of them of two digits,
\* that returned.
C10_Witness ==
    /\ ulast.op = "_put_large_file"
    /\ ulast.raised = ""
    /\ Len(ulast.reqs) = 3
    /\ ulast.reqs[1].hi = 0
    /\ ulast.reqs[2].lo = 1
    /\ ulast.reqs[2].hi = BigRowSize
    /\ ulast.reqs[3].lo = BigRowSize + 1
    /\ ulast.reqs[3].hi = ulast.reqs[3].total - 1
    /\ ulast.reqs[3].hi > ulast.reqs[3].lo

\* --------------------------------------------------------------------- C11
SeqRange(q) == {q[i] : i \in 1..Len(q)}

BatchIndices == 1..Len(batch.files)

BatchRaised == {i \in BatchIndices : batch.stage[i] \in {"raised", "collected"}
                                      /\ batch.result[i] = NoRecord}

\* C11: in a batch upload no file is attempted twice; when upload finishes
\* every enumerated file was attempted once; it raises UploadError exactly
\* when an attempt raised, naming each file whose attempt raised once and no
\* other file; it returns, when no attempt raised, one record per enumerated
\* file; and every reference a worker returned is still listed by the
\* repository.
C11_BatchAccounting ==
    /\ \A i \in BatchIndices : batch.attempts[i] <= 1
    /\ \A i \in BatchIndices :
          batch.result[i] # NoRecord =>
              batch.result[i].href \in SeqRange(repo[hash_file(batch.files[i])])
    /\ batch.phase = "done" =>
          /\ \A i \in BatchIndices : batch.attempts[i] = 1
          /\ (batch.raised = "UploadError") = (BatchRaised # {})
          /\ batch.raised \in {"", "UploadError"}
          /\ batch.raised = "UploadError" =>
                /\ SeqRange(batch.error_files) = {batch.files[i] : i \in BatchRaised}
                /\ Len(batch.error_files) = Cardinality(BatchRaised)
          /\ batch.raised = "" =>
                /\ Len(batch.ret) = Len(batch.files)
                /\ SeqRange(batch.ret) = {batch.result[i] : i \in BatchIndices}
                /\ \A i \in BatchIndices :
                      /\ batch.result[i].name = batch.files[i].path[2]
                      /\ batch.result[i].href # NoRef

\* A batch of five files, more than there are workers, finished with
\* UploadError naming the first and the last file, whose attempts raised
\* before and after the other three were uploaded.
C11_Witness ==
    /\ batch.phase = "done"
    /\ Len(batch.files) = 5
    /\ batch.raised = "UploadError"
    /\ batch.error_files = <<batch.files[1], batch.files[5]>>
    /\ Len(batch.success_uploads) = 3
    /\ \A i \in 2..4 : batch.result[i].href \in SeqRange(repo[hash_file(batch.files[i])])

\* --------------------------------------------------------------------- C12
\* The first read at which the repository reports a state in the set.
FirstReport(states) == CHOOSE i \in 1..Len(task_reports) :
    /\ task_reports[i] \in states
    /\ \A j \in 1..(i - 1) : task_reports[j] \notin states

\* C12: _wait_for_task_completion reads the task once per reported state up to
\* the first report of 'completed' or 'failed' and never after it; it went on
\* reading only after reports of other states; when it returns, the record is
\* the one of the first such read and its state is 'completed'; when that read
\* reports 'failed' it raises TaskFailedError with the task reference; it
\* ends earlier only when a read request itself raised.
C12_PollStopsAtFirstTerminalState ==
    ulast.op = "_wait_for_task_completion" =>
        LET n == Len(ulast.reqs)
            f == FirstReport({"completed", "failed"})
        IN  /\ n >= 1 /\ n <= f
            /\ \A i \in 1..n : ulast.reqs[i].req = "read" /\ ulast.reqs[i].ref = PolledTask
            /\ \A i \in 1..(n - 1) : task_reports[i] \notin {"completed", "failed"}
            /\ ulast.raised \in {"", "TaskFailedError", "ApiException"}
            /\ ulast.raised = "" =>
                  /\ n = f
                  /\ ulast.task = [pulp_href |-> PolledTask, state |-> "completed", read |-> f]
                  /\ task_reports[f] = "completed"
            /\ ulast.raised = "TaskFailedError" =>
                  /\ n = f
                  /\ task_reports[f] = "failed"
                  /\ ulast.detail = PolledTask
            /\ ulast.raised = "ApiException" => n = ulast.args[1]
            /\ ulast.args[1] = 0 => n = f

\* The task is reported canceled, then running, then completed: three reads,
\* and the record of the third is returned.
C12_Witness ==
    /\ ulast.op = "_wait_for_task_completion"
    /\ Len(task_reports) = 3
    /\ task_reports[1] = "canceled"
    /\ task_reports[2] = "running"
    /\ task_reports[3] = "completed"
    /\ ulast.raised = ""
    /\ Len(ulast.reqs) = 3
    /\ ulast.task.read = 3

\* --------------------------------------------------------------------- C13
\* The exit codes of the reachability checks of the last call, in order.
PingEvents == SelectSeq(last.trace, LAMBDA e : e.ev = "run" /\ e.arg = PingArgs)

\* The checks and the pauses of the last call, in order.
PollEvents == SelectSeq(last.trace, LAMBDA e : e.ev = "sleep" \/ (e.ev = "run" /\ e.arg = PingArgs))

\* C13: with the machine answering first at check k <= 60, the polling runs
\* exactly k checks, the k-th the only one that exits 0 and the last thing it
\* does, and reports success, and start_env does not raise for it; with no
\* answer within 60 checks exactly 60 checks are run, a pause after each, the
\* polling reports failure and start_env raises StartEnvironmentError; never
\* more than 60 checks are run.
C13_ReachabilityPolling ==
    LET n == Len(PingEvents)
        k == last.args[1]
        polled == \/ last.op = "_wait_for_ssh"
                  \/ last.op = "GenericVMRunner.start_env" /\ n > 0
    IN  /\ last.op \in {"_wait_for_ssh", "GenericVMRunner.start_env"} => n <= 60
        /\ polled /\ k <= 60 =>
              /\ n = k
              /\ PingEvents[k].code = 0
              /\ \A i \in 1..(k - 1) : PingEvents[i].code # 0
              /\ last.trace[Len(last.trace)] = PingEvents[k]
              /\ Len(PollEvents) = 2 * k - 1
              /\ \A i \in 1..(k - 1) : PollEvents[2 * i].ev = "sleep"
              /\ last.raised = ""
              /\ last.op = "_wait_for_ssh" => last.ret = RetBool(TRUE)
        /\ polled /\ k > 60 =>
              /\ n = 60
              /\ \A i \in 1..60 : PingEvents[i].code # 0
              /\ Len(PollEvents) = 120
              /\ \A i \in 1..60 : PollEvents[2 * i - 1].ev = "run" /\ PollEvents[2 * i].ev = "sleep"
              /\ last.op = "_wait_for_ssh" => last.ret = RetBool(FALSE) /\ last.raised = ""
              /\ last.op = "GenericVMRunner.start_env" => last.raised = "StartEnvironmentError"

\* A machine that would answer at the 61st check: start_env runs 60 checks
\* and raises.
C13_Witness ==
    /\ last.op = "GenericVMRunner.start_env"
    /\ last.args = <<61>>
    /\ Len(PingEvents) = 60
    /\ last.raised = "StartEnvironmentError"

\* --------------------------------------------------------------------- C14
UploadEvents == SelectSeq(last.trace, LAMBDA e : e.ev = "upload")

ArtifactFiles == {f \in disk : Len(f) = Len(_artifacts_dir) + 1 /\ IsPrefix(_artifacts_dir, f)}

\* C14: a publication that reached its upload loop attempts every file of the
\* artifacts directory once, under the key of the root directory, the job and
\* the file name, whatever error an earlier upload raised, and it ends with
\* PublishArtifactsError exactly when an upload failed, and with no other
\* error.
C14_EveryFileAttempted ==
    last.op = "publish_artifacts_to_storage" /\ UploadEvents # <<>> =>
        /\ {UploadEvents[i].at : i \in 1..Len(UploadEvents)} = ArtifactFiles
        /\ Len(UploadEvents) = Cardinality(ArtifactFiles)
        /\ \A i \in 1..Len(UploadEvents) :
              UploadEvents[i].arg = <<artifacts_root_directory, _task_id,
                                     UploadEvents[i].at[Len(UploadEvents[i].at)]>>
        /\ (last.raised = "PublishArtifactsError") =
              (\E i \in 1..Len(UploadEvents) : UploadEvents[i].code # 0)
        /\ last.raised \in {"", "PublishArtifactsError"}

\* --------------------------------------------------------------------- C15
\* C15: when a call of teardown has finished, returned or raised, the working
\* directory is not on disk any more, unless the recursive delete was tried
\* and failed.
C15_TeardownAlwaysErases ==
    last.op = "teardown" /\ _work_dir # NoPath /\ _work_dir \in disk =>
        \E i \in 1..Len(last.trace) :
            last.trace[i].ev = "rmtree" /\ last.trace[i].code # 0

\* --------------------------------------------------------------------- C16
\* The last call ran the command whose arguments hold the word.
RanWith(word) ==
    \E i \in 1..Len(last.trace) :
        /\ last.trace[i].ev = "run"
        /\ \E j \in 1..Len(last.trace[i].arg) : last.trace[i].arg[j] = word

\* C16: whichever public calls were made on the runner, terraform apply is run
\* only after some terraform init was run, the initial_provision playbook only
\* after some apply, and the install_package playbook only after some
\* initial_provision playbook: the runner then holds the record of the earlier
\* step.  (What the ordering of the commands implies for the records kept.)
C16_CommandsOnlyInOrder ==
    /\ RanWith("apply") => "initialize_terraform" \in DOMAIN _artifacts
    /\ RanWith("initial_provision") => "start_environment" \in DOMAIN _artifacts
    /\ RanWith("install_package") => "initial_provision" \in DOMAIN _artifacts

\* --------------------------------------------------------------------- C17
\* The requests of the send of the last upload_single_file: all but the
\* existence check.
SendReqs == Tail(ulast.reqs)

SentSize == ulast.file.content.size

\* How many update requests the transfer of the file takes, and the range of
\* the i-th.
ExpectedUpdates ==
    IF SentSize > _chunk_size
    THEN (SentSize + _chunk_size - 1) \div _chunk_size
    ELSE 1

ExpectedLo(i) == IF SentSize > _chunk_size THEN (i - 1) * _chunk_size ELSE 0

ExpectedHi(i) ==
    IF SentSize > _chunk_size
    THEN (IF i * _chunk_size < SentSize THEN i * _chunk_size ELSE SentSize) - 1
    ELSE SentSize - 1

ReqsOfKind(kind) == {i \in 1..Len(SendReqs) : SendReqs[i].req = kind}

\* C17: a send starts with one create stating the file's size; then come the
\* updates, in order: the single range 0..size-1 when the size is not above
\* the chunk size, and otherwise the ranges of the chunks; the one commit,
\* with the file's digest and on the created upload, comes only after all the
\* updates went through; after it come only reads of the task; and a send that
\* returns returns the reference the completed task created, which the
\* repository then lists.
C17_SendOrder ==
    ulast.op = "upload_single_file" /\ Len(ulast.reqs) > 1 =>
        LET n == Len(SendReqs)
            updates == ReqsOfKind("update")
            commits == ReqsOfKind("commit")
            reads == ReqsOfKind("read")
            failed_at == IF ulast.raised = "ApiException" THEN n ELSE 0
        IN  /\ SendReqs[1].req = "create" /\ SendReqs[1].total = SentSize
            /\ ReqsOfKind("create") = {1}
            /\ ReqsOfKind("list") = {}
            /\ updates = 2..(1 + Cardinality(updates))
            /\ Cardinality(updates) <= ExpectedUpdates
            /\ \A i \in updates :
                  /\ SendReqs[i].lo = ExpectedLo(i - 1)
                  /\ SendReqs[i].hi = ExpectedHi(i - 1)
                  /\ SendReqs[i].total = SentSize
                  /\ SendReqs[i].ref = UploadHref(SentSize)
            /\ Cardinality(commits) <= 1
            /\ \A i \in commits :
                  /\ i = ExpectedUpdates + 2
                  /\ Cardinality(updates) = ExpectedUpdates
                  /\ failed_at \notin updates
                  /\ SendReqs[i].sha256 = hash_file(ulast.file)
                  /\ SendReqs[i].ref = UploadHref(SentSize)
            /\ reads # {} => commits # {} /\ failed_at \notin commits
            /\ \A i \in reads : i > ExpectedUpdates + 2
            /\ ulast.raised = "" =>
                  /\ commits # {} /\ reads # {}
                  /\ ulast.task.state = "completed"
                  /\ ulast.task.read = Cardinality(reads)
                  /\ ulast.ret.href =
                        ArtifactHref(hash_file(ulast.file), Len(ulast.listed_before) + 1)
                  /\ repo[hash_file(ulast.file)] = <<ulast.ret.href>>

\* A file of three bytes sent in chunks of one: create, three updates,
\* commit, two reads of the task, and the reference is returned.
C17_Witness ==
    /\ ulast.op = "upload_single_file"
    /\ ulast.raised = ""
    /\ _chunk_size = 1
    /\ SentSize > 2
    /\ Len(SendReqs) = SentSize + 4
    /\ SendReqs[SentSize + 2].req = "commit"
    /\ SendReqs[SentSize + 4].req = "read"
    /\ ulast.ret.href \in SeqRange(repo[hash_file(ulast.file)])

\* --------------------------------------------------------------------- C18
\* C18: every request the uploader sent in its last call, whichever call it
\* is (list, create, update, commit, read), was made with the per-request
\* timeout.
C18_EveryRequestHasTimeout ==
    \A i \in 1..Len(ulast.reqs) : ulast.reqs[i].timeout

\* --------------------------------------------------------------------- C19
PollDone == polling.pc \in {"returned", "raised"}

\* C19: a poll ends only on what a read told it: it returns only on a read
\* that reported 'completed', raises TaskFailedError only on a read that
\* reported 'failed', and raises nothing else but the error of a read, however
\* many reads it made; and once the task is 'completed' or 'failed', a poll in
\* progress ends.
C19_PollEndsOnlyOnTerminalState ==
    /\ [](/\ polling.raised \in {"", "TaskFailedError", "ApiException"}
          /\ polling.pc = "returned" => polling.result = "completed"
          /\ polling.raised = "TaskFailedError" => polling.result = "failed"
          /\ PollDone /\ polling.raised # "ApiException" => polling.task \in TerminalStates)
    /\ ((polling.pc \in {"read", "sleep"} /\ polling.task \in TerminalStates) ~> PollDone)

\* The task is still running after as many reads as are counted, and the
\* poll goes on.
C19_Witness ==
    /\ polling.reads = MaxPollCount
    /\ polling.pc = "sleep"
    /\ polling.result = "running"
    /\ polling.task = "running"

\* --------------------------------------------------------------------- C20
\* C20: when _put_large_file has finished, returned or raised, none of the
\* paths it created, the temporary directory and the files in it, is on disk.
C20_TempDirRemoved ==
    ulast.op = "_put_large_file" =>
        /\ UploaderTempDir \in ulast.made
        /\ \A f \in ulast.made : f \notin ulast.tmp
        /\ ulast.tmp = {}

\* A transfer whose second update raised, with the directory, the manifest
\* and three chunk files created.
C20_Witness ==
    /\ ulast.op = "_put_large_file"
    /\ ulast.raised = "ApiException"
    /\ Len(ulast.reqs) = 2
    /\ Cardinality(ulast.made) = 5
    /\ ulast.tmp = {}

\* --------------------------------------------------------------------- C21
\* The positions in the trace of the last call of the commands whose arguments
\* hold the word.
RunsOf(tr, word) ==
    {i \in 1..Len(tr) : tr[i].ev = "run" /\ \E j \in 1..Len(tr[i].arg) : tr[i].arg[j] = word}

\* C21: GenericVMRunner.start_env called when no working directory exists runs
\* no external command, renders no inventory and raises nothing; called when
\* the working directory exists, it reads the vm_ip output only after an apply
\* that exited 0, renders the inventory with the address read only after a read
\* that exited 0, and checks reachability only after the inventory was
\* rendered.
C21_VMStartEnvObeysGate ==
    [][last'.op = "GenericVMRunner.start_env" =>
          LET tr == last'.trace
          IN  IF NoWorkDirOnDisk
              THEN tr = <<>> /\ last'.raised = ""
              ELSE /\ \A i \in RunsOf(tr, "output") :
                         i > 1 /\ (i - 1) \in RunsOf(tr, "apply") /\ tr[i - 1].code = 0
                   /\ \A i \in 1..Len(tr) : tr[i].ev = "render" =>
                         /\ i > 1 /\ (i - 1) \in RunsOf(tr, "output") /\ tr[i - 1].code = 0
                         /\ tr[i].arg = <<ANSIBLE_INVENTORY_FILE, tr[i - 1].stdout>>
                   /\ \A i \in RunsOf(tr, "ping") :
                         \E j \in 1..(i - 1) : tr[j].ev = "render" /\ tr[j].code = 0]_vars

\* The part of C21 for an existing working directory.
C21_OrderWithWorkDir ==
    [][last'.op = "GenericVMRunner.start_env" /\ ~NoWorkDirOnDisk =>
          LET tr == last'.trace
          IN  /\ \A i \in RunsOf(tr, "output") :
                     i > 1 /\ (i - 1) \in RunsOf(tr, "apply") /\ tr[i - 1].code = 0
              /\ \A i \in 1..Len(tr) : tr[i].ev = "render" =>
                     /\ i > 1 /\ (i - 1) \in RunsOf(tr, "output") /\ tr[i - 1].code = 0
                     /\ tr[i].arg = <<ANSIBLE_INVENTORY_FILE, tr[i - 1].stdout>>
              /\ \A i \in RunsOf(tr, "ping") :
                     \E j \in 1..(i - 1) : tr[j].ev = "render" /\ tr[j].code = 0]_vars

\* --------------------------------------------------------------------- C22
\* The package spec the claim gives for the arguments of the last call.
C22_Expected ==
    LET name == last.args[1]
        version == last.args[2]
    IN  IF version = "" THEN name
        ELSE IF pkg_manager.value = "yum" THEN name \o "-" \o version
        ELSE name \o "=" \o version

\* C22: an install_package that ran the configuration-management tool passed
\* it, as the pkg_name extra variable under the tag install_package, the
\* spec name-version when a version was given and the package manager is yum,
\* name=version when a version was given and the package manager is another
\* one, and the bare name when no version was given; the record of the run is
\* stored under install_package, and a non-zero exit raises
\* InstallPackageError.
C22_PackageSpec ==
    last.op = "install_package" /\ last.trace # <<>> =>
        /\ Len(last.trace) = 1
        /\ last.trace[1].ev = "run"
        /\ last.trace[1].arg =
              <<"ansible-playbook", "-c", "ssh", "-i", ANSIBLE_INVENTORY_FILE,
                ANSIBLE_PLAYBOOK, "-e", "pkg_name=" \o C22_Expected, "-t", "install_package">>
        /\ "install_package" \in DOMAIN _artifacts
        /\ _artifacts["install_package"] =
              [exit_code |-> last.trace[1].code, stderr |-> last.trace[1].stderr,
               stdout |-> last.trace[1].stdout]
        /\ (last.raised = "InstallPackageError") = (last.trace[1].code # 0)
        /\ last.raised \in {"", "InstallPackageError"}

\* install_package('pkg', '1.0') on a ('CentOS', 8) runner, whose package
\* manager is dnf: the tool got pkg=1.0, exited non-zero, and the call raised.
C22_Witness ==
    /\ last.op = "install_package"
    /\ last.args = <<"pkg", "1.0">>
    /\ pkg_manager.value = "dnf"
    /\ Len(last.trace) = 1
    /\ last.trace[1].arg[8] = "pkg_name=pkg=1.0"
    /\ last.trace[1].code # 0
    /\ last.raised = "InstallPackageError"
    /\ _artifacts["install_package"].exit_code # 0

\* --------------------------------------------------------------------- C23
\* The workers of the batch that found no artifact of their file's content
\* and have not sent the file yet.
PassedCheck == {i \in BatchIndices : batch.stage[i] = "send"}

\* C23: in one batch upload, two workers handling files of one content never
\* both pass the existence check and both send: at most one of them is past
\* the check with the send ahead of it.
C23_OneSendPerContent ==
    \A i \in PassedCheck, j \in PassedCheck :
        hash_file(batch.files[i]) = hash_file(batch.files[j]) => i = j

\* --------------------------------------------------------------------- C24
\* C24: when prepare_work_dir_files has returned normally, whatever state the
\* runner was in before, the recorded artifacts directory is the directory
\* artifacts of the current working directory, and it is on disk.
C24_PrepareRecordsArtifactsDir ==
    last.op = "prepare_work_dir_files" /\ last.raised = "" =>
        /\ _work_dir # NoPath
        /\ _artifacts_dir = Append(_work_dir, "artifacts")
        /\ _artifacts_dir \in disk

\* --------------------------------------------------------------------- C25
\* C25: teardown() with publish_artifacts = true on a runner for which no
\* working directory was ever created runs no external command, uploads
\* nothing and returns without raising; and a teardown() that follows a
\* teardown which returned normally and left no working directory on disk
\* raises nothing.
C25_TeardownWithoutWorkDir ==
    [][last'.op = "teardown" /\ last'.args = <<"True">> =>
          /\ _work_dir = NoPath =>
                /\ ~HasEvent(last'.trace, {"run", "upload", "write"})
                /\ last'.raised = ""
          /\ (last.op = "teardown" /\ last.raised = "" /\ _work_dir \notin disk) =>
                last'.raised = ""]_vars

\* The second half of C25 alone: a teardown after a teardown that returned
\* normally and left no working directory on disk raises nothing.
C25_SecondTeardown ==
    [][(/\ last'.op = "teardown" /\ last'.args = <<"True">>
        /\ last.op = "teardown" /\ last.raised = ""
        /\ _work_dir # NoPath /\ _work_dir \notin disk) => last'.raised = ""]_vars

\* --------------------------------------------------------------------- C26
\* C26: every byte range sent in an update request of an upload, for a file
\* of any size and any chunk size, is well formed: 0 <= start <= end < total,
\* where total is the size the create request of the upload declared.
C26_ByteRangesWellFormed ==
    ulast.op = "upload_single_file" =>
        \A i \in 1..Len(ulast.reqs) : ulast.reqs[i].req = "update" =>
            /\ 0 <= ulast.reqs[i].lo
            /\ ulast.reqs[i].lo <= ulast.reqs[i].hi
            /\ ulast.reqs[i].hi < ulast.reqs[i].total
            /\ \E j \in 1..(i - 1) :
                  /\ ulast.reqs[j].req = "create"
                  /\ ulast.reqs[j].total = ulast.reqs[i].total

\* C26 for the files that hold at least one byte.
C26_NonEmptyFile ==
    ulast.op = "upload_single_file" /\ ulast.file.content.size > 0 =>
        \A i \in 1..Len(ulast.reqs) : ulast.reqs[i].req = "update" =>
            /\ 0 <= ulast.reqs[i].lo
            /\ ulast.reqs[i].lo <= ulast.reqs[i].hi
            /\ ulast.reqs[i].hi < ulast.reqs[i].total
            /\ \E j \in 1..(i - 1) :
                  /\ ulast.reqs[j].req = "create"
                  /\ ulast.reqs[j].total = ulast.reqs[i].total

====
